---- MODULE Spec2Model ----
(***************************************************************************)
(* A model of the proof composition engine of zksk                         *)
(* (compiler/CompositionProofs.py): AND / OR composition of Sigma          *)
(* protocols, their provers, verifiers, simulators and the Fiat-Shamir     *)
(* driver.                                                                 *)
(*                                                                         *)
(* The leaves (discrete-log representation proofs), the base Prover and    *)
(* Verifier classes, the group arithmetic and the hash live in files of    *)
(* the repository that are not part of the excerpt (Abstractions.py,       *)
(* primitives/DLRep.py); they are modelled from the specification: the     *)
(* group is Z_Order written additively, a generator is a non-zero element  *)
(* of it, and the hash is a fixed function onto CHAL_LENGTH-bit values.    *)
(***************************************************************************)
EXTENDS Integers, Sequences, FiniteSets, TLC

(***************************************************************************)
(* Parameters                                                              *)
(***************************************************************************)
\* k, the challenge bit length (the library value is 128).
CHAL_LENGTH == 2
\* The prime order of the group all generators of the model live in.
Order == 3
\* Number of distinct messages a non-interactive proof may be bound to.
NumMessages == 2

Modulus == 2 ^ CHAL_LENGTH
Scalars == 0 .. (Order - 1)
Challenges == 0 .. (Modulus - 1)
Messages == 0 .. (NumMessages - 1)

\* Secret objects; equality is identity.
Secrets == {"x0", "x1", "x2", "x3"}

\* Python's None, for a scalar, for a challenge, for a list of secrets.
None == 0 - 1
NoneChal == Modulus
NoneList == <<"None">>

(***************************************************************************)
(* Dictionaries keyed by Secret: total functions, None marks a missing key *)
(***************************************************************************)
EmptyDict == [s \in Secrets |-> None]
NoneDict == [s \in Secrets |-> 0 - 2]
Keys(d) == {s \in Secrets : d[s] # None}
DictUpdate(d, e) == [s \in Secrets |-> IF e[s] # None THEN e[s] ELSE d[s]]
DictFilter(d, keys) == [s \in Secrets |-> IF s \in keys THEN d[s] ELSE None]
FullDicts(keys) == {d \in [Secrets -> Scalars \cup {None}] : Keys(d) = keys}

Range(seq) == {seq[i] : i \in 1 .. Len(seq)}
Count(seq, e) == Cardinality({i \in 1 .. Len(seq) : seq[i] = e})

RECURSIVE Concat(_)
Concat(seqs) == IF seqs = <<>> THEN <<>> ELSE Head(seqs) \o Concat(Tail(seqs))

RECURSIVE SeqProduct(_)
\* All sequences whose i-th element is drawn from the i-th set.
SeqProduct(sets) ==
  IF sets = <<>> THEN {<<>>}
  ELSE {<<h>> \o t : h \in Head(sets), t \in SeqProduct(Tail(sets))}

RECURSIVE SumSeq(_)
SumSeq(seq) == IF seq = <<>> THEN 0 ELSE Head(seq) + SumSeq(Tail(seq))

(***************************************************************************)
(* Expression nodes.  Every node carries the same fields so that nodes of  *)
(* different kinds can be stored side by side:                             *)
(*   kind          "Leaf", "And" or "Or"                                   *)
(*   subs          the ordered children (subproofs) of a composite         *)
(*   secret_vars   the secret bag, generators the generator bag            *)
(*   lhs           the left-hand side of a leaf                            *)
(*   simulation    the simulation flag                                     *)
(*   secret_values the witness values the node knows                       *)
(*   chosen_idx    the real branch recorded on an OR (0: not set yet)      *)
(*   or_challenges the subchallenges recorded on an OR by verification     *)
(***************************************************************************)
\* The value bound on a Secret object at its construction: x3 is built
\* with a value, as Secret(value=4) of the tests, the others without.
SecretValue(s) == IF s = "x3" THEN 1 ELSE None

BoundValues(secret_vars) ==
  [s \in Secrets |-> IF s \in Range(secret_vars) THEN SecretValue(s) ELSE None]

\* A discrete-log representation leaf: lhs = SUM secret_vars[i] * generators[i].
DLRep(lhs, secret_vars, generators) ==
  [kind |-> "Leaf", subs |-> <<>>, secret_vars |-> secret_vars,
   generators |-> generators, lhs |-> lhs, simulation |-> FALSE,
   secret_values |-> BoundValues(secret_vars), chosen_idx |-> 0,
   or_challenges |-> <<>>]

get_secret_vars(subproofs) ==
  Concat([i \in 1 .. Len(subproofs) |-> subproofs[i].secret_vars])

get_generators(subproofs) ==
  Concat([i \in 1 .. Len(subproofs) |-> subproofs[i].generators])

\* The node an AND / OR constructor builds when none of its checks raises.
Composite(kind, subproofs) ==
  [kind |-> kind, subs |-> subproofs,
   secret_vars |-> get_secret_vars(subproofs),
   generators |-> get_generators(subproofs), lhs |-> 0, simulation |-> FALSE,
   secret_values |-> BoundValues(get_secret_vars(subproofs)),
   chosen_idx |-> 0, or_challenges |-> <<>>]

\* The order of a second group, whose elements are written Order + k.
OtherOrder == 5

\* The order of the group a generator belongs to: the elements below Order
\* are those of the group of order Order, the others those of the second
\* group.
GroupOrder(generator) == IF generator < Order THEN Order ELSE OtherOrder

\* check_groups raises iff a secret is paired with generators of groups of
\* different orders.
check_groups(secret_vars, generators) ==
  \E i, j \in 1 .. Len(secret_vars) :
    /\ secret_vars[i] = secret_vars[j]
    /\ GroupOrder(generators[i]) # GroupOrder(generators[j])

\* A variant of OrProof.check_or_flaw that compares with >= instead of >.
OrProof_check_or_flaw_geq(node, forbidden_secrets) ==
  IF forbidden_secrets = NoneList THEN FALSE
  ELSE \E secret \in Range(node.secret_vars) :
         Count(forbidden_secrets, secret) >= Count(node.secret_vars, secret)

\* OrProof.check_or_flaw: TRUE iff it raises.
OrProof_check_or_flaw(node, forbidden_secrets) ==
  IF forbidden_secrets = NoneList THEN FALSE
  ELSE \E secret \in Range(node.secret_vars) :
         Count(forbidden_secrets, secret) > Count(node.secret_vars, secret)

RECURSIVE check_or_flaw(_, _)
\* A variant of AndProof.check_or_flaw that hands its children no list, so
\* that a nested AND starts again from its own secrets.
AndProof_check_or_flaw_restart(node, forbidden_secrets) ==
  LET forbidden == IF forbidden_secrets = NoneList THEN node.secret_vars
                   ELSE forbidden_secrets
  IN \E i \in 1 .. Len(node.subs) :
       check_or_flaw(node.subs[i],
                     IF node.subs[i].kind = "And" THEN NoneList ELSE forbidden)

\* AndProof.check_or_flaw: TRUE iff it raises.
AndProof_check_or_flaw(node, forbidden_secrets) ==
  LET forbidden == IF forbidden_secrets = NoneList THEN node.secret_vars
                   ELSE forbidden_secrets
  IN \E i \in 1 .. Len(node.subs) : check_or_flaw(node.subs[i], forbidden)

\* Dispatch on the kind of the node; a leaf inherits Proof.check_or_flaw.
check_or_flaw(node, forbidden_secrets) ==
  CASE node.kind = "And" -> AndProof_check_or_flaw(node, forbidden_secrets)
    [] node.kind = "Or" -> OrProof_check_or_flaw(node, forbidden_secrets)
    [] OTHER -> FALSE

\* A variant of AndProof.__init__ that does not call check_groups.
AndProof_init_ungrouped(subproofs) ==
  IF Len(subproofs) < 2 THEN "ArityTooSmall"
  ELSE IF AndProof_check_or_flaw(Composite("And", subproofs), NoneList)
       THEN "OrFlaw"
  ELSE "ok"

\* AndProof.__init__: the error it raises, or "ok".
AndProof_init(subproofs) ==
  IF Len(subproofs) < 2 THEN "ArityTooSmall"
  ELSE IF check_groups(get_secret_vars(subproofs), get_generators(subproofs))
       THEN "GroupMismatch"
  ELSE IF AndProof_check_or_flaw(Composite("And", subproofs), NoneList)
       THEN "OrFlaw"
  ELSE "ok"

\* A variant of OrProof.__init__ that accepts a single subproof.
OrProof_init_single(subproofs) ==
  IF Len(subproofs) < 1 THEN "ArityTooSmall"
  ELSE IF check_groups(get_secret_vars(subproofs), get_generators(subproofs))
       THEN "GroupMismatch"
  ELSE "ok"

\* OrProof.__init__: the error it raises, or "ok".
OrProof_init(subproofs) ==
  IF Len(subproofs) < 2 THEN "ArityTooSmall"
  ELSE IF check_groups(get_secret_vars(subproofs), get_generators(subproofs))
       THEN "GroupMismatch"
  ELSE "ok"

(***************************************************************************)
(* Group arithmetic, hashing and encoding                                  *)
(***************************************************************************)
\* SUM scalars[i] * generators[i] in the group Z_Order.
wsum(scalars, generators) ==
  SumSeq([i \in 1 .. Len(scalars) |-> scalars[i] * generators[i]]) % Order

\* add_Bn_array: the sum of arr under the modulus, a value of 0 .. modulus-1.
add_Bn_array(arr, modulus) == SumSeq(arr) % modulus

\* A variant of find_residual_chal that forgets to negate the sum.
find_residual_chal_unnegated(arr, challenge, chal_length) ==
  add_Bn_array(Append(arr, 0 - challenge), 2 ^ chal_length)

\* The complement of the subchallenges arr to the global challenge: the
\* negation of (SUM arr - challenge) mod 2^chal_length.
find_residual_chal(arr, challenge, chal_length) ==
  0 - add_Bn_array(Append(arr, 0 - challenge), 2 ^ chal_length)

NoPrecommitment == <<>>

TagCode(kind) == CASE kind = "And" -> 1 [] kind = "Or" -> 2 [] OTHER -> 3

RECURSIVE get_proof_id(_)
DLRep_get_proof_id(node) == <<"DLRep", <<node.lhs>> \o node.generators>>
\* A variant of AndProof.get_proof_id that lists the children's proof_ids
\* from the last child to the first.
AndProof_get_proof_id_reversed(node) ==
  <<"And", [i \in 1 .. Len(node.subs) |->
              get_proof_id(node.subs[Len(node.subs) + 1 - i])]>>

AndProof_get_proof_id(node) ==
  <<"And", [i \in 1 .. Len(node.subs) |-> get_proof_id(node.subs[i])]>>
OrProof_get_proof_id(node) ==
  <<"Or", [i \in 1 .. Len(node.subs) |-> get_proof_id(node.subs[i])]>>
get_proof_id(node) ==
  CASE node.kind = "And" -> AndProof_get_proof_id(node)
    [] node.kind = "Or" -> OrProof_get_proof_id(node)
    [] OTHER -> DLRep_get_proof_id(node)

RECURSIVE ec_encode_id(_)
\* The canonical encoding of get_proof_id(node): tag, length, then the items.
ec_encode_id(node) ==
  IF node.kind = "Leaf"
  THEN <<TagCode(node.kind), 1 + Len(node.generators), node.lhs>>
         \o node.generators
  ELSE <<TagCode(node.kind), Len(node.subs)>>
         \o Concat([i \in 1 .. Len(node.subs) |-> ec_encode_id(node.subs[i])])

\* Proof.prehash_statement().digest(): SHA-256 of the encoded proof_id, taken
\* as collision free (the digest is the encoding).
prehash_statement(node) == ec_encode_id(node)

RECURSIVE ec_encode_commitment(_, _)
\* The encoding of a commitment: the group elements in tree order.
ec_encode_commitment(node, commitment) ==
  IF node.kind = "Leaf" THEN <<commitment>>
  ELSE Concat([i \in 1 .. Len(node.subs) |->
                 ec_encode_commitment(node.subs[i], commitment[i])])

\* The Fiat-Shamir challenge: the hash of statement, commitment,
\* precommitment and message, reduced to CHAL_LENGTH bits.
FiatShamir(statement, encoded_commitment, message) ==
  LET conc == statement \o encoded_commitment
  IN (SumSeq([i \in 1 .. Len(conc) |-> (2 * i + 1) * conc[i]]) + message)
       % Modulus

(***************************************************************************)
(* Transcripts, provers                                                    *)
(***************************************************************************)
SimulationTranscript(commitment, challenge, responses, precommitment) ==
  [commitment |-> commitment, challenge |-> challenge,
   responses |-> responses, precommitment |-> precommitment,
   statement |-> <<>>]

NonInteractiveTranscript(challenge, responses, precommitment, statement) ==
  [commitment |-> <<>>, challenge |-> challenge, responses |-> responses,
   precommitment |-> precommitment, statement |-> statement]

NoTranscript == SimulationTranscript(<<>>, NoneChal, <<>>, NoPrecommitment)

\* Prover nodes; every kind carries the same fields.
\*   subs             the child provers (the one real subprover of an OR)
\*   secret_values    the witness values of a leaf prover
\*   ks               the randomizers a leaf prover committed with
\*   true_prover_idx  the real branch of an OR prover
\*   simulations      the stored simulations of an OR prover, skipping the
\*                    real branch
\*   commitment       the commitment an AND prover keeps
NoProver ==
  [kind |-> "None", subs |-> <<>>, secret_values |-> EmptyDict, ks |-> <<>>,
   true_prover_idx |-> 0, simulations |-> <<>>, commitment |-> <<>>]
DLRepProver(secret_values) ==
  [NoProver EXCEPT !.kind = "Leaf", !.secret_values = secret_values]
AndProver(subprovers) == [NoProver EXCEPT !.kind = "And", !.subs = subprovers]
OrProver(true_prover_idx, subprover, simulations) ==
  [NoProver EXCEPT !.kind = "Or", !.subs = <<subprover>>,
                   !.true_prover_idx = true_prover_idx,
                   !.simulations = simulations]

(***************************************************************************)
(* Randomizers                                                             *)
(***************************************************************************)
\* get_randomizers: one uniform scalar per secret of the node (all the
\* dictionaries it can draw).
get_randomizers(node) == FullDicts(Range(node.secret_vars))

\* A variant of Proof.update_randomizers that updates the dictionary passed
\* with the fresh one instead of the fresh one with the dictionary passed.
update_randomizers_redrawn(node, randomizers_dict) ==
  IF randomizers_dict = NoneDict THEN get_randomizers(node)
  ELSE IF \E x \in Range(node.secret_vars) : randomizers_dict[x] = None
       THEN {DictUpdate(randomizers_dict, tmp) : tmp \in get_randomizers(node)}
  ELSE {randomizers_dict}

\* Proof.update_randomizers: all the dictionaries it can return.
update_randomizers(node, randomizers_dict) ==
  IF randomizers_dict = NoneDict THEN get_randomizers(node)
  ELSE IF \E x \in Range(node.secret_vars) : randomizers_dict[x] = None
       THEN {DictUpdate(tmp, randomizers_dict) : tmp \in get_randomizers(node)}
  ELSE {randomizers_dict}

(***************************************************************************)
(* Recomputing commitments                                                 *)
(***************************************************************************)
\* A leaf recomputes wsum(responses) - challenge * lhs.
DLRep_recompute_commitment(node, challenge, responses) ==
  [raised |-> FALSE, proof |-> node,
   comm |-> (node.lhs * (0 - challenge) + wsum(responses, node.generators))
              % Order]

RECURSIVE recompute_commitment(_, _, _)
RECURSIVE AndProof_recompute_from(_, _, _, _, _)
\* The loop of AndProof.recompute_commitment from child i on; an exception
\* of a child ends it.
AndProof_recompute_from(node, challenge, andresp, i, comm) ==
  IF i > Len(node.subs) THEN [raised |-> FALSE, proof |-> node, comm |-> comm]
  ELSE LET r == recompute_commitment(node.subs[i], challenge, andresp[i])
           node2 == [node EXCEPT !.subs[i] = r.proof]
       IN IF r.raised THEN [raised |-> TRUE, proof |-> node2, comm |-> <<>>]
          ELSE AndProof_recompute_from(node2, challenge, andresp, i + 1,
                                       Append(comm, r.comm))

\* A variant of AndProof.recompute_commitment that hands its children a
\* challenge one off the one it received.
AndProof_recompute_commitment_shifted(node, challenge, andresp) ==
  AndProof_recompute_from(node, challenge + 1, andresp, 1, <<>>)

\* AndProof.recompute_commitment
AndProof_recompute_commitment(node, challenge, andresp) ==
  AndProof_recompute_from(node, challenge, andresp, 1, <<>>)

RECURSIVE OrProof_recompute_from(_, _, _, _)
\* The loop of OrProof.recompute_commitment from child i on.
OrProof_recompute_from(node, responses, i, comm) ==
  IF i > Len(node.subs) THEN [raised |-> FALSE, proof |-> node, comm |-> comm]
  ELSE LET r == recompute_commitment(node.subs[i], node.or_challenges[i],
                                     responses[i])
           node2 == [node EXCEPT !.subs[i] = r.proof]
       IN IF r.raised THEN [raised |-> TRUE, proof |-> node2, comm |-> <<>>]
          ELSE OrProof_recompute_from(node2, responses, i + 1,
                                      Append(comm, r.comm))

\* A variant of OrProof.recompute_commitment that compares the sum of the
\* subchallenges after the children have recomputed.
OrProof_recompute_commitment_late(node, challenge, responses) ==
  LET node1 == [node EXCEPT !.or_challenges = responses[1]]
      r == OrProof_recompute_from(node1, responses[2], 1, <<>>)
  IN IF find_residual_chal(node1.or_challenges, challenge, CHAL_LENGTH) # 0
     THEN [raised |-> TRUE, proof |-> r.proof, comm |-> <<>>]
     ELSE r

\* OrProof.recompute_commitment: records the subchallenges on the proof,
\* raises if they do not add up to the challenge, then recomputes in order.
OrProof_recompute_commitment(node, challenge, responses) ==
  LET node1 == [node EXCEPT !.or_challenges = responses[1]]
  IN IF find_residual_chal(node1.or_challenges, challenge, CHAL_LENGTH) # 0
     THEN [raised |-> TRUE, proof |-> node1, comm |-> <<>>]
     ELSE OrProof_recompute_from(node1, responses[2], 1, <<>>)

recompute_commitment(node, challenge, responses) ==
  CASE node.kind = "And" -> AndProof_recompute_commitment(node, challenge, responses)
    [] node.kind = "Or" -> OrProof_recompute_commitment(node, challenge, responses)
    [] OTHER -> DLRep_recompute_commitment(node, challenge, responses)

(***************************************************************************)
(* Simulation                                                              *)
(***************************************************************************)
ChallengeDraws(challenge) ==
  IF challenge = NoneChal THEN Challenges ELSE {challenge}

\* chal_randbits(CHAL_LENGTH): a uniform CHAL_LENGTH-bit value.
chal_randbits(chal_length) == 0 .. (2 ^ chal_length - 1)

ResponsesOf(node, responses_dict) ==
  [i \in 1 .. Len(node.secret_vars) |-> responses_dict[node.secret_vars[i]]]

\* A leaf simulates by drawing the responses (or taking the imposed ones)
\* and the challenge, and recomputing the commitment from them.
DLRep_simulate_proof(node, responses_dict, challenge) ==
  {SimulationTranscript(
     DLRep_recompute_commitment(node, c, ResponsesOf(node, rd)).comm,
     c, ResponsesOf(node, rd), NoPrecommitment) :
     rd \in update_randomizers(node, responses_dict),
     c \in ChallengeDraws(challenge)}

RECURSIVE simulate_proof(_, _, _)

\* The SimulationTranscript AndProof.simulate_proof packs from the
\* simulations of its children.
AndProof_pack(challenge, simulations) ==
  SimulationTranscript(
    [i \in 1 .. Len(simulations) |-> simulations[i].commitment], challenge,
    [i \in 1 .. Len(simulations) |-> simulations[i].responses],
    [i \in 1 .. Len(simulations) |-> simulations[i].precommitment])

\* A variant in which every child of an AND draws its own responses.
AndProof_simulate_child_unshared(subp, responses_dict, challenge) ==
  simulate_proof(subp, NoneDict, challenge)

\* The simulations child i of an AND can return for the completed response
\* dictionary and the challenge of the AND.
AndProof_simulate_child(subp, responses_dict, challenge) ==
  simulate_proof(subp, responses_dict, challenge)

\* A variant of AndProof.simulate_proof that draws its challenge whether or
\* not one is passed.
AndProof_simulate_proof_drawn(node, responses_dict, challenge) ==
  UNION {
    {AndProof_pack(c, sims) :
       sims \in SeqProduct([i \in 1 .. Len(node.subs) |->
                  AndProof_simulate_child(node.subs[i], rd, c)])} :
    rd \in update_randomizers(node, responses_dict),
    c \in chal_randbits(CHAL_LENGTH)}

\* AndProof.simulate_proof: all the transcripts it can return.
AndProof_simulate_proof(node, responses_dict, challenge) ==
  UNION {
    {AndProof_pack(c, sims) :
       sims \in SeqProduct([i \in 1 .. Len(node.subs) |->
                  AndProof_simulate_child(node.subs[i], rd, c)])} :
    rd \in update_randomizers(node, responses_dict),
    c \in IF challenge = NoneChal THEN chal_randbits(CHAL_LENGTH)
          ELSE {challenge}}

\* A variant in which the last child of an OR is simulated with the
\* challenge of the OR.
OrProof_final_chal_global(or_chals, challenge) == challenge

\* The challenge OrProof.simulate_proof imposes on its last child.
OrProof_final_chal(or_chals, challenge) ==
  find_residual_chal(or_chals, challenge, CHAL_LENGTH)

\* The SimulationTranscript OrProof.simulate_proof packs from the
\* simulations of its first n-1 children and of its last child.
OrProof_pack(challenge, firsts, final_chal, trfinal) ==
  LET all == Append(firsts, trfinal)
      or_chals == Append([i \in 1 .. Len(firsts) |-> firsts[i].challenge],
                         final_chal)
  IN SimulationTranscript(
       [i \in 1 .. Len(all) |-> all[i].commitment], challenge,
       <<or_chals, [i \in 1 .. Len(all) |-> all[i].responses]>>,
       [i \in 1 .. Len(all) |-> all[i].precommitment])

\* OrProof.simulate_proof: all the transcripts it can return.
OrProof_simulate_proof(node, responses_dict, challenge) ==
  LET n == Len(node.subs)
  IN UNION {
       UNION {
         LET final_chal ==
               OrProof_final_chal(
                 [i \in 1 .. Len(firsts) |-> firsts[i].challenge], c)
         IN {OrProof_pack(c, firsts, final_chal, trfinal) :
               trfinal \in simulate_proof(node.subs[n], NoneDict, final_chal)} :
         firsts \in SeqProduct([i \in 1 .. (n - 1) |->
                      simulate_proof(node.subs[i], NoneDict, NoneChal)])} :
       c \in IF challenge = NoneChal THEN chal_randbits(CHAL_LENGTH)
             ELSE {challenge}}

simulate_proof(node, responses_dict, challenge) ==
  CASE node.kind = "And" -> AndProof_simulate_proof(node, responses_dict, challenge)
    [] node.kind = "Or" -> OrProof_simulate_proof(node, responses_dict, challenge)
    [] OTHER -> DLRep_simulate_proof(node, responses_dict, challenge)

\* Proof.set_simulate
set_simulate(node) == [node EXCEPT !.simulation = TRUE]

\* A variant of Proof.simulate that does not add the statement hash.
simulate_without_statement(node, challenge) ==
  {[proof |-> set_simulate(node), transcript |-> tr] :
     tr \in simulate_proof(set_simulate(node), NoneDict, challenge)}

\* Proof.simulate: marks the proof simulated, simulates and adds the
\* statement hash.  All the (proof, transcript) pairs it can produce.
simulate(node, challenge) ==
  LET proof == set_simulate(node)
  IN {[proof |-> proof,
       transcript |-> [tr EXCEPT !.statement = prehash_statement(proof)]] :
        tr \in simulate_proof(proof, NoneDict, challenge)}

(***************************************************************************)
(* Building provers                                                        *)
(***************************************************************************)
\* A leaf prover exists when the leaf is not simulated and every secret of
\* the leaf has a value; the values passed are merged into the leaf's own.
DLRep_get_prover(node, secrets_dict) ==
  LET values == DictUpdate(node.secret_values, secrets_dict)
      proof == [node EXCEPT !.secret_values = values]
  IN IF node.simulation \/ values = EmptyDict
        \/ \E s \in Range(node.secret_vars) : values[s] = None
     THEN {[proof |-> proof, prover |-> NoProver]}
     ELSE {[proof |-> proof, prover |-> DLRepProver(values)]}

RECURSIVE get_prover(_, _)

\* A variant of sub_proof_prover that hands the subproof all the secrets.
sub_proof_prover_unfiltered(sub_proof, secrets_dict) ==
  get_prover(sub_proof, secrets_dict)

\* sub_proof_prover: the prover of a subproof from the secrets it declares.
sub_proof_prover(sub_proof, secrets_dict) ==
  get_prover(sub_proof, DictFilter(secrets_dict, Range(sub_proof.secret_vars)))

RECURSIVE AndProof_subs_from(_, _, _, _)
\* The list comprehension of AndProof.get_prover from child i on: every
\* child is asked in order, each call updating that child.
AndProof_subs_from(node, secrets_dict, i, subs) ==
  IF i > Len(node.subs) THEN {[proof |-> node, subs |-> subs]}
  ELSE UNION {
         AndProof_subs_from([node EXCEPT !.subs[i] = r.proof], secrets_dict,
                            i + 1, Append(subs, r.prover)) :
         r \in sub_proof_prover(node.subs[i], secrets_dict)}

\* A variant of AndProof.get_prover in which the values the proof already
\* holds win over those of secrets_dict.
AndProof_get_prover_stored_first(node, secrets_dict) ==
  LET values == DictUpdate(secrets_dict, node.secret_values)
      proof == [node EXCEPT !.secret_values = values]
  IN IF proof.simulation \/ values = EmptyDict
     THEN {[proof |-> proof, prover |-> NoProver]}
     ELSE {[proof |-> r.proof,
            prover |-> IF \E i \in 1 .. Len(r.subs) : r.subs[i] = NoProver
                       THEN NoProver ELSE AndProver(r.subs)] :
            r \in AndProof_subs_from(proof, values, 1, <<>>)}

\* AndProof.get_prover: all the (proof, prover) pairs it can produce.
AndProof_get_prover(node, secrets_dict) ==
  LET values == DictUpdate(node.secret_values, secrets_dict)
      proof == [node EXCEPT !.secret_values = values]
  IN IF proof.simulation \/ values = EmptyDict
     THEN {[proof |-> proof, prover |-> NoProver]}
     ELSE {[proof |-> r.proof,
            prover |-> IF \E i \in 1 .. Len(r.subs) : r.subs[i] = NoProver
                       THEN NoProver ELSE AndProver(r.subs)] :
            r \in AndProof_subs_from(proof, values, 1, <<>>)}

\* OrProver.setup_simulations: one simulation per child other than the real
\* one, in child order.
OrProver_setup_simulations(proof, true_prover_idx) ==
  LET others == SelectSeq([i \in 1 .. Len(proof.subs) |-> i],
                          LAMBDA i : i # true_prover_idx)
  IN SeqProduct([j \in 1 .. Len(others) |->
                   simulate_proof(proof.subs[others[j]], NoneDict, NoneChal)])

\* OrProver.__init__: the real branch is the index recorded on the proof.
OrProver_init(proof, subprover) ==
  {OrProver(proof.chosen_idx, subprover, sims) :
     sims \in OrProver_setup_simulations(proof, proof.chosen_idx)}

\* The children OrProof.get_prover may draw from.
OrProof_candidates(node) ==
  {idx \in 1 .. Len(node.subs) : ~node.subs[idx].simulation}

\* A variant of possible.remove(self.chosen_idx) that removes nothing.
OrProof_remaining_kept(possible, chosen_idx) == possible

\* possible.remove(self.chosen_idx)
OrProof_remaining(possible, chosen_idx) == possible \ {chosen_idx}

RECURSIVE OrProof_draw(_, _, _)
\* A variant of the draw loop that records the first draw only.
OrProof_draw_first(node, possible, secrets_dict) ==
  UNION {
    UNION {
      LET proof == [node EXCEPT
                      !.chosen_idx = IF node.chosen_idx = 0 THEN idx
                                     ELSE node.chosen_idx,
                      !.subs[idx] = r.proof]
      IN IF r.prover # NoProver
         THEN {[proof |-> proof, prover |-> p] :
                 p \in OrProver_init(proof, r.prover)}
         ELSE IF possible \ {idx} = {}
              THEN {[proof |-> proof, prover |-> NoProver]}
              ELSE OrProof_draw(proof, possible \ {idx}, secrets_dict) :
      r \in sub_proof_prover(node.subs[idx], secrets_dict)} :
    idx \in possible}

\* A variant of the draw loop that gives up after the first draw.
OrProof_draw_once(node, possible, secrets_dict) ==
  UNION {
    UNION {
      LET proof == [node EXCEPT !.chosen_idx = idx, !.subs[idx] = r.proof]
      IN IF r.prover # NoProver
         THEN {[proof |-> proof, prover |-> p] :
                 p \in OrProver_init(proof, r.prover)}
         ELSE {[proof |-> proof, prover |-> NoProver]} :
      r \in sub_proof_prover(node.subs[idx], secrets_dict)} :
    idx \in possible}

\* The draw loop of OrProof.get_prover: draw a candidate, record it, try to
\* get its prover, remove it and draw again when there is none.
OrProof_draw(node, possible, secrets_dict) ==
  UNION {
    UNION {
      LET proof == [node EXCEPT !.chosen_idx = idx, !.subs[idx] = r.proof]
      IN IF r.prover # NoProver
         THEN {[proof |-> proof, prover |-> p] :
                 p \in OrProver_init(proof, r.prover)}
         ELSE IF possible \ {idx} = {}
              THEN {[proof |-> proof, prover |-> NoProver]}
              ELSE OrProof_draw(proof, possible \ {idx}, secrets_dict) :
      r \in sub_proof_prover(node.subs[idx], secrets_dict)} :
    idx \in possible}

\* OrProof.get_prover: all the (proof, prover) pairs it can produce.
OrProof_get_prover(node, secrets_dict) ==
  LET values == DictUpdate(node.secret_values, secrets_dict)
      proof == [node EXCEPT !.secret_values = values]
  IN IF proof.simulation \/ values = EmptyDict
     THEN {[proof |-> proof, prover |-> NoProver]}
     ELSE IF OrProof_candidates(proof) = {}
          THEN {[proof |-> proof, prover |-> NoProver]}
          ELSE OrProof_draw(proof, OrProof_candidates(proof), values)

get_prover(node, secrets_dict) ==
  CASE node.kind = "And" -> AndProof_get_prover(node, secrets_dict)
    [] node.kind = "Or" -> OrProof_get_prover(node, secrets_dict)
    [] OTHER -> DLRep_get_prover(node, secrets_dict)

(***************************************************************************)
(* The three moves of the provers                                          *)
(***************************************************************************)
RECURSIVE precommit(_, _)
\* A variant of the loop of AndProver.precommit that appends what it
\* collects instead of storing it at the position of the subprover.
AndProver_collect_appended(subprecoms) ==
  SelectSeq(subprecoms, LAMBDA subprecom : subprecom # NoPrecommitment)

RECURSIVE AndProver_collect_from(_, _, _)
\* The loop of AndProver.precommit from subprover idx on: the first
\* precommitment that is not None turns the empty list into a list of one
\* None per subprover, and each one is stored at its subprover's position.
AndProver_collect_from(subprecoms, idx, precommitment) ==
  IF idx > Len(subprecoms)
  THEN IF Len(precommitment) # 0 THEN precommitment ELSE NoPrecommitment
  ELSE IF subprecoms[idx] # NoPrecommitment
  THEN LET list == IF Len(precommitment) = 0
                   THEN [i \in 1 .. Len(subprecoms) |-> NoPrecommitment]
                   ELSE precommitment
       IN AndProver_collect_from(subprecoms, idx + 1,
                                 [list EXCEPT ![idx] = subprecoms[idx]])
  ELSE AndProver_collect_from(subprecoms, idx + 1, precommitment)

\* What AndProver.precommit returns when its subprovers return subprecoms.
AndProver_collect(subprecoms) == AndProver_collect_from(subprecoms, 1, <<>>)

\* AndProver.precommit: None when no subprover has a precommitment, else
\* one slot per subprover.
AndProver_precommit(node, prover) ==
  AndProver_collect([idx \in 1 .. Len(prover.subs) |->
                       precommit(node.subs[idx], prover.subs[idx])])

\* A variant of index1 that counts the stored simulations from the end.
OrProver_index1_reversed(prover, index) ==
  Len(prover.simulations) + 1
    - (IF index > prover.true_prover_idx THEN index - 1 ELSE index)

\* The position of child index in the stored simulations of an OR prover.
OrProver_index1(prover, index) ==
  IF index > prover.true_prover_idx THEN index - 1 ELSE index

\* OrProver.precommit
OrProver_precommit(node, prover) ==
  LET precommitment ==
        [index \in 1 .. Len(node.subs) |->
           IF index = prover.true_prover_idx
           THEN precommit(node.subs[index], prover.subs[1])
           ELSE prover.simulations[OrProver_index1(prover, index)].precommitment]
  IN IF \A index \in 1 .. Len(node.subs) : precommitment[index] = NoPrecommitment
     THEN NoPrecommitment ELSE precommitment

\* A discrete-log leaf has no precommitment.
precommit(node, prover) ==
  CASE node.kind = "And" -> AndProver_precommit(node, prover)
    [] node.kind = "Or" -> OrProver_precommit(node, prover)
    [] OTHER -> NoPrecommitment

\* A leaf prover commits to wsum(randomizers) and keeps the randomizers.
DLRepProver_internal_commit(node, prover, randomizers_dict) ==
  {[prover |-> [prover EXCEPT !.ks = ResponsesOf(node, rd)],
    commitment |-> wsum(ResponsesOf(node, rd), node.generators)] :
     rd \in update_randomizers(node, randomizers_dict)}

RECURSIVE internal_commit(_, _, _)

\* A variant in which an AND prover hands its subprovers no randomizers.
AndProver_sub_randomizers_none(randomizers_dict) == NoneDict

\* The randomizers an AND prover hands to each of its subprovers.
AndProver_sub_randomizers(randomizers_dict) == randomizers_dict

\* AndProver.internal_commit: all the (prover, commitment) pairs it can
\* produce.
AndProver_internal_commit(node, prover, randomizers_dict) ==
  UNION {
    {[prover |-> [prover EXCEPT
                    !.subs = [i \in 1 .. Len(cs) |-> cs[i].prover],
                    !.commitment = [i \in 1 .. Len(cs) |-> cs[i].commitment]],
      commitment |-> [i \in 1 .. Len(cs) |-> cs[i].commitment]] :
       cs \in SeqProduct([i \in 1 .. Len(prover.subs) |->
                internal_commit(node.subs[i], prover.subs[i],
                                AndProver_sub_randomizers(rd))])} :
    rd \in update_randomizers(node, randomizers_dict)}

\* OrProver.internal_commit: the real subprover commits with randomizers of
\* its own, the other commitments come from the stored simulations.
OrProver_internal_commit(node, prover, randomizers_dict) ==
  {[prover |-> [prover EXCEPT !.subs = <<c.prover>>],
    commitment |->
      [index \in 1 .. Len(node.subs) |->
         IF index = prover.true_prover_idx THEN c.commitment
         ELSE prover.simulations[OrProver_index1(prover, index)].commitment]] :
     c \in internal_commit(node.subs[prover.true_prover_idx], prover.subs[1],
                           NoneDict)}

internal_commit(node, prover, randomizers_dict) ==
  CASE node.kind = "And" -> AndProver_internal_commit(node, prover, randomizers_dict)
    [] node.kind = "Or" -> OrProver_internal_commit(node, prover, randomizers_dict)
    [] OTHER -> DLRepProver_internal_commit(node, prover, randomizers_dict)

\* A leaf prover answers randomizer + challenge * secret for each secret.
DLRepProver_compute_response(node, prover, challenge) ==
  [i \in 1 .. Len(node.secret_vars) |->
     (prover.secret_values[node.secret_vars[i]] * challenge + prover.ks[i])
       % Order]

RECURSIVE compute_response(_, _, _)

\* A variant of AndProver.compute_response that answers every child with
\* the responses of the first one's challenge plus one.
AndProver_compute_response_skewed(node, prover, challenge) ==
  [i \in 1 .. Len(prover.subs) |->
     compute_response(node.subs[i], prover.subs[i],
                      IF i = 1 THEN challenge ELSE challenge + 1)]

\* AndProver.compute_response
AndProver_compute_response(node, prover, challenge) ==
  [i \in 1 .. Len(prover.subs) |->
     compute_response(node.subs[i], prover.subs[i], challenge)]

\* A variant in which the real subprover of an OR answers the global
\* challenge itself.
OrProver_residual_chal_global(prover, challenge) == challenge

\* The challenge an OR prover leaves to its real subprover.
OrProver_residual_chal(prover, challenge) ==
  find_residual_chal(
    [i \in 1 .. Len(prover.simulations) |-> prover.simulations[i].challenge],
    challenge, CHAL_LENGTH)

\* A variant of OrProver.compute_response that takes the real branch from
\* the index the expression records now instead of the prover's own.
OrProver_compute_response_current(node, prover, challenge) ==
  LET residual_chal == OrProver_residual_chal(prover, challenge)
      current == [prover EXCEPT !.true_prover_idx = node.chosen_idx]
      challenges ==
        [index \in 1 .. Len(node.subs) |->
           IF index = current.true_prover_idx THEN residual_chal
           ELSE prover.simulations[OrProver_index1(current, index)].challenge]
      response ==
        [index \in 1 .. Len(node.subs) |->
           IF index = current.true_prover_idx
           THEN compute_response(node.subs[index], prover.subs[1], residual_chal)
           ELSE prover.simulations[OrProver_index1(current, index)].responses]
  IN <<challenges, response>>

\* OrProver.compute_response: the pair (subchallenges, responses).
OrProver_compute_response(node, prover, challenge) ==
  LET residual_chal == OrProver_residual_chal(prover, challenge)
      challenges ==
        [index \in 1 .. Len(node.subs) |->
           IF index = prover.true_prover_idx THEN residual_chal
           ELSE prover.simulations[OrProver_index1(prover, index)].challenge]
      response ==
        [index \in 1 .. Len(node.subs) |->
           IF index = prover.true_prover_idx
           THEN compute_response(node.subs[index], prover.subs[1], residual_chal)
           ELSE prover.simulations[OrProver_index1(prover, index)].responses]
  IN <<challenges, response>>

compute_response(node, prover, challenge) ==
  CASE node.kind = "And" -> AndProver_compute_response(node, prover, challenge)
    [] node.kind = "Or" -> OrProver_compute_response(node, prover, challenge)
    [] OTHER -> DLRepProver_compute_response(node, prover, challenge)

(***************************************************************************)
(* Verifiers                                                               *)
(***************************************************************************)
RECURSIVE DLRep_check_from(_, _, _, _)
\* A leaf verifier records the response of each of its secrets in the
\* dictionary and fails on a response that differs from the recorded one.
DLRep_check_from(node, response, responses_dict, i) ==
  IF i > Len(node.secret_vars) THEN [ok |-> TRUE, dict |-> responses_dict]
  ELSE LET s == node.secret_vars[i]
       IN IF responses_dict[s] # None /\ responses_dict[s] # response[i]
          THEN [ok |-> FALSE, dict |-> responses_dict]
          ELSE DLRep_check_from(node, response,
                                [responses_dict EXCEPT ![s] = response[i]],
                                i + 1)

RECURSIVE check_responses_consistency(_, _, _)
RECURSIVE AndVerifier_check_from(_, _, _, _)
\* The loop of AndVerifier.check_responses_consistency from child i on: one
\* dictionary goes through all the children.
AndVerifier_check_from(node, responses, responses_dict, i) ==
  IF i > Len(node.subs) THEN [ok |-> TRUE, dict |-> responses_dict]
  ELSE LET r == check_responses_consistency(node.subs[i], responses[i],
                                            responses_dict)
       IN IF ~r.ok THEN [ok |-> FALSE, dict |-> r.dict]
          ELSE AndVerifier_check_from(node, responses, r.dict, i + 1)

\* A variant of AndVerifier.check_responses_consistency that hands every
\* child a dictionary of its own.
AndVerifier_check_responses_apart(node, responses, responses_dict) ==
  [ok |-> \A i \in 1 .. Len(node.subs) :
            check_responses_consistency(node.subs[i], responses[i],
                                        EmptyDict).ok,
   dict |-> responses_dict]

AndVerifier_check_responses_consistency(node, responses, responses_dict) ==
  AndVerifier_check_from(node, responses, responses_dict, 1)

RECURSIVE OrVerifier_check_shared_from(_, _, _, _)
OrVerifier_check_shared_from(node, responses, responses_dict, idx) ==
  IF idx > Len(node.subs) THEN [ok |-> TRUE, dict |-> responses_dict]
  ELSE LET r == check_responses_consistency(node.subs[idx],
                                            responses[2][idx], responses_dict)
       IN IF ~r.ok THEN [ok |-> FALSE, dict |-> r.dict]
          ELSE OrVerifier_check_shared_from(node, responses, r.dict, idx + 1)

\* A variant of OrVerifier.check_responses_consistency that hands the
\* dictionary it received on to every child.
OrVerifier_check_responses_shared(node, responses, responses_dict) ==
  OrVerifier_check_shared_from(node, responses, responses_dict, 1)

\* OrVerifier.check_responses_consistency: every child is checked against a
\* fresh dictionary; the dictionary passed is left alone.
OrVerifier_check_responses_consistency(node, responses, responses_dict) ==
  [ok |-> \A idx \in 1 .. Len(node.subs) :
            check_responses_consistency(node.subs[idx], responses[2][idx],
                                        EmptyDict).ok,
   dict |-> responses_dict]

check_responses_consistency(node, responses, responses_dict) ==
  CASE node.kind = "And" ->
         AndVerifier_check_responses_consistency(node, responses, responses_dict)
    [] node.kind = "Or" ->
         OrVerifier_check_responses_consistency(node, responses, responses_dict)
    [] OTHER -> DLRep_check_from(node, responses, responses_dict, 1)

\* Proof.check_statement: TRUE iff it raises.
check_statement(node, statement) == statement # prehash_statement(node)

\* A variant of AndVerifier.send_challenge that never compares statements.
AndVerifier_send_challenge_unchecked(proof, commitment, mute) ==
  {[raised |-> FALSE,
    commitment |-> IF mute THEN commitment ELSE commitment[2],
    challenge |-> c] : c \in chal_randbits(CHAL_LENGTH)}

\* AndVerifier.send_challenge: whether check_statement raised, the
\* commitment stored and the challenge drawn (none when it raised).
AndVerifier_send_challenge(proof, commitment, mute) ==
  IF mute
  THEN {[raised |-> FALSE, commitment |-> commitment, challenge |-> c] :
          c \in chal_randbits(CHAL_LENGTH)}
  ELSE IF check_statement(proof, commitment[1])
  THEN {[raised |-> TRUE, commitment |-> commitment[2],
         challenge |-> NoneChal]}
  ELSE {[raised |-> FALSE, commitment |-> commitment[2], challenge |-> c] :
          c \in chal_randbits(CHAL_LENGTH)}

\* Verifier.verify: the outcome of checking the responses against the
\* commitment and challenge the verifier holds, and the proof as the
\* recomputation leaves it.
Verifier_verify(node, commitment, challenge, responses) ==
  IF ~check_responses_consistency(node, responses, EmptyDict).ok
  THEN [outcome |-> "InconsistentResponses", proof |-> node]
  ELSE LET r == recompute_commitment(node, challenge, responses)
       IN [outcome |-> IF r.raised THEN "InconsistentChallenge"
                       ELSE IF commitment = r.comm THEN "accept"
                       ELSE "reject",
           proof |-> r.proof]

\* Verifier.verify_NI: the challenge of the transcript must be the hash of
\* the statement, the recomputed commitment, the precommitment and the
\* message.
Verifier_verify_NI(node, transcript, message) ==
  IF check_statement(node, transcript.statement)
  THEN [outcome |-> "StatementMismatch", proof |-> node]
  ELSE IF ~check_responses_consistency(node, transcript.responses, EmptyDict).ok
  THEN [outcome |-> "reject", proof |-> node]
  ELSE LET r == recompute_commitment(node, transcript.challenge,
                                     transcript.responses)
       IN [outcome |->
             IF r.raised THEN "InconsistentChallenge"
             ELSE IF transcript.challenge =
                       FiatShamir(prehash_statement(node),
                                  ec_encode_commitment(node, r.comm), message)
                  THEN "accept" ELSE "reject",
           proof |-> r.proof]

\* Prover.get_NI_proof: precommit, commit, hash, respond.  All the
\* transcripts it can produce.
Prover_get_NI_proof(node, prover, message) ==
  {LET challenge == FiatShamir(prehash_statement(node),
                               ec_encode_commitment(node, c.commitment),
                               message)
   IN NonInteractiveTranscript(
        challenge, compute_response(node, c.prover, challenge),
        precommit(node, prover), prehash_statement(node)) :
     c \in internal_commit(node, prover, NoneDict)}

\* A variant of Proof.prove that drops the message.
Proof_prove_message_dropped(message) == 0

\* The message Proof.prove hands to the prover.
Proof_prove_message(message) == message

\* Proof.prove: all the (proof, transcript) pairs it can produce; there is
\* no transcript (the call fails) when there is no prover.
Proof_prove(node, secret_dict, message) ==
  UNION {
    IF r.prover = NoProver THEN {[proof |-> r.proof, transcript |-> NoTranscript]}
    ELSE {[proof |-> r.proof, transcript |-> tr] :
            tr \in Prover_get_NI_proof(r.proof, r.prover,
                                       Proof_prove_message(message))} :
    r \in get_prover(node, secret_dict)}

\* Proof.verify
Proof_verify(node, transcript, message) ==
  Verifier_verify_NI(node, transcript, message)

\* Proof.verify_simulation_consistency: the statement is checked, then the
\* transcript's responses are verified against its own commitment and
\* challenge.
Proof_verify_simulation_consistency(node, transcript) ==
  IF check_statement(node, transcript.statement)
  THEN [outcome |-> "StatementMismatch", proof |-> node]
  ELSE Verifier_verify(node, transcript.commitment, transcript.challenge,
                       transcript.responses)

(***************************************************************************)
(* The statements and witnesses the model runs on                          *)
(***************************************************************************)
\* AndProof(...) / OrProof(...) for arguments the constructor accepts.
AndProof(subproofs) == Composite("And", subproofs)
OrProof(subproofs) == Composite("Or", subproofs)

\* The witness all the leaves below are built from.
TrueWitness == [s \in Secrets |->
                  CASE s = "x0" -> 1 [] s = "x1" -> 2 [] OTHER -> 1]

\* The leaves: P1 and P2 share the secret x0, as p1 and p2 of the tests do.
P1 == DLRep(wsum(<<1>>, <<1>>), <<"x0">>, <<1>>)
P2 == DLRep(wsum(<<1, 2>>, <<2, 1>>), <<"x0", "x1">>, <<2, 1>>)
P3 == DLRep(wsum(<<1>>, <<2>>), <<"x2">>, <<2>>)
P4 == DLRep(wsum(<<2>>, <<1>>), <<"x1">>, <<1>>)
Leaves == {P1, P2, P3}

\* The expressions the protocol is run on.
Expressions ==
  {AndProof(<<P1, P2>>), AndProof(<<P2, P2>>), AndProof(<<P1, P2, P3>>),
   AndProof(<<AndProof(<<P1, P3>>), P2>>),
   OrProof(<<P1, P3>>), OrProof(<<P1, P2>>),
   OrProof(<<P3, OrProof(<<P1, P3>>)>>),
   OrProof(<<P3, AndProof(<<P1, P2>>)>>),
   AndProof(<<P3, OrProof(<<P1, P4>>)>>)}

\* W with the value of secret s replaced by another scalar.
Perturbed(W, s, delta) == [W EXCEPT ![s] = (W[s] + delta) % Order]

\* The witness maps handed to get_prover and prove for an expression over
\* the secrets keys: the true witness, the true witness with one value
\* replaced, and the true witness restricted to some of the secrets.
Witnesses(keys) ==
  {DictFilter(TrueWitness, some) : some \in SUBSET keys}
  \cup {Perturbed(DictFilter(TrueWitness, keys), s, delta) :
          s \in keys, delta \in 1 .. (Order - 1)}

VARIABLES
  pc,          \* the step the run is at
  ctor,        \* the constructor call: [kind, subproofs]
  built,       \* "new", or what the constructor did: "ok" or the error raised
  expr,        \* the expression, with its mutable attributes
  witness,     \* the witness map given to get_prover / prove
  prover,      \* the prover tree
  statement,   \* the statement hash sent with the commitment
  commitment,  \* the commitment the verifier holds
  challenge,   \* the challenge the verifier holds
  response,    \* the response of the prover
  transcript,  \* the non-interactive or simulated transcript
  origin,      \* "prove" or "simulate": where the transcript comes from
  message,     \* the message the transcript was made for
  vmessage,    \* the message verification is run with
  outcome,     \* what verification did
  sent,        \* the send_challenge call: [commitment, mute]
  loop,        \* the draw loop of OrProof.get_prover: [possible, attempts]
  args,        \* the arguments of the method called on its own
  ret          \* what that method returned

vars == <<pc, ctor, built, expr, witness, prover, statement, commitment,
          challenge, response, transcript, origin, message, vmessage, outcome,
          sent, loop, args, ret>>

NoNode == Composite("None", <<>>)

\* No send_challenge call yet.
NoCall == [commitment |-> <<>>, mute |-> FALSE]

\* The draw loop not entered; no method called on its own.
NoLoop == [possible |-> {}, attempts |-> <<>>]
NoArgs == <<>>
NoReturn == <<>>

\* The state of a run before its first step.
Fresh ==
  /\ witness = EmptyDict
  /\ prover = NoProver
  /\ statement = <<>>
  /\ commitment = <<>>
  /\ challenge = NoneChal
  /\ response = <<>>
  /\ transcript = NoTranscript
  /\ origin = "none"
  /\ message = None
  /\ vmessage = None
  /\ outcome = "none"
  /\ sent = NoCall
  /\ loop = NoLoop
  /\ args = NoArgs
  /\ ret = NoReturn

Init ==
  /\ expr \in Expressions
  /\ ctor = [kind |-> expr.kind, subproofs |-> expr.subs]
  /\ built = "ok"
  /\ pc = "init"
  /\ Fresh

\* prover = proof.get_prover(witness)
GetProver ==
  /\ pc = "init"
  /\ \E W \in Witnesses(Range(expr.secret_vars)) :
       \E r \in get_prover(expr, W) :
         /\ witness' = W
         /\ expr' = r.proof
         /\ prover' = r.prover
         /\ pc' = IF r.prover = NoProver THEN "absent" ELSE "prover"
  /\ UNCHANGED <<ctor, built, statement, commitment, challenge,
                 response, transcript, origin, message, vmessage, outcome,
                 sent, loop, args, ret>>

\* commitment = prover.commit(): the statement hash and the commitment.
Commit ==
  /\ pc = "prover"
  /\ \E c \in internal_commit(expr, prover, NoneDict) :
       /\ prover' = c.prover
       /\ commitment' = c.commitment
  /\ statement' = prehash_statement(expr)
  /\ pc' = "committed"
  /\ UNCHANGED <<ctor, built, expr, witness, challenge, response, transcript,
                 origin, message, vmessage, outcome,
                 sent, loop, args, ret>>

\* verifier.send_challenge(argument, mute)
SendChallengeWith(argument, mute) ==
  /\ pc = "committed"
  /\ sent' = [commitment |-> argument, mute |-> mute]
  /\ \E r \in AndVerifier_send_challenge(expr, argument, mute) :
       /\ commitment' = r.commitment
       /\ IF r.raised
          THEN /\ outcome' = "StatementMismatch"
               /\ pc' = "verified"
               /\ UNCHANGED challenge
          ELSE /\ challenge' = r.challenge
               /\ pc' = "challenged"
               /\ UNCHANGED outcome
  /\ UNCHANGED <<ctor, built, expr, witness, prover, statement, response,
                 transcript, origin, message, vmessage,
                 loop, args, ret>>

\* challenge = verifier.send_challenge(commitment), with what commit() gave
SendChallenge == SendChallengeWith(<<statement, commitment>>, FALSE)

\* response = prover.compute_response(challenge)
ComputeResponse ==
  /\ pc = "challenged"
  /\ response' = compute_response(expr, prover, challenge)
  /\ pc' = "responded"
  /\ UNCHANGED <<ctor, built, expr, witness, prover, statement, commitment,
                 challenge, transcript, origin, message, vmessage, outcome,
                 sent, loop, args, ret>>

\* verifier.verify(response)
Verify ==
  /\ pc = "responded"
  /\ LET v == Verifier_verify(expr, commitment, challenge, response)
     IN /\ outcome' = v.outcome
        /\ expr' = v.proof
  /\ pc' = "verified"
  /\ UNCHANGED <<ctor, built, witness, prover, statement, commitment,
                 challenge, response, transcript, origin, message, vmessage,
                 sent, loop, args, ret>>

\* transcript = proof.prove(witness, message)
Prove ==
  /\ pc = "init"
  /\ \E W \in Witnesses(Range(expr.secret_vars)), m \in Messages :
       \E r \in Proof_prove(expr, W, m) :
         /\ witness' = W
         /\ expr' = r.proof
         /\ transcript' = r.transcript
         /\ message' = m
         /\ pc' = IF r.transcript = NoTranscript THEN "failed" ELSE "proved"
  /\ origin' = "prove"
  /\ UNCHANGED <<ctor, built, prover, statement, commitment,
                 challenge, response, vmessage, outcome,
                 sent, loop, args, ret>>

\* transcript = proof.simulate(challenge), with or without a challenge
Simulate ==
  /\ pc = "init"
  /\ \E c \in chal_randbits(CHAL_LENGTH) \cup {NoneChal} :
       \E r \in simulate(expr, c) :
         /\ expr' = r.proof
         /\ transcript' = r.transcript
  /\ origin' = "simulate"
  /\ pc' = "simulated"
  /\ UNCHANGED <<ctor, built, witness, prover, statement, commitment,
                 challenge, response, message, vmessage, outcome,
                 sent, loop, args, ret>>

\* proof.verify(transcript, vmessage), of a proved or a simulated transcript
VerifyNI ==
  /\ pc \in {"proved", "simulated"}
  /\ \E m \in Messages :
       /\ vmessage' = m
       /\ LET v == Proof_verify(expr, transcript, m)
          IN /\ outcome' = v.outcome
             /\ expr' = v.proof
  /\ pc' = "ni_verified"
  /\ UNCHANGED <<ctor, built, witness, prover, statement, commitment,
                 challenge, response, transcript, origin, message,
                 sent, loop, args, ret>>

\* proof.verify_simulation_consistency(transcript)
VerifySimulationConsistency ==
  /\ pc = "simulated"
  /\ LET v == Proof_verify_simulation_consistency(expr, transcript)
     IN /\ outcome' = v.outcome
        /\ expr' = v.proof
  /\ pc' = "sim_checked"
  /\ UNCHANGED <<ctor, built, witness, prover, statement, commitment,
                 challenge, response, transcript, origin, message, vmessage,
                 sent, loop, args, ret>>

Next ==
  \/ GetProver
  \/ Commit
  \/ SendChallenge
  \/ ComputeResponse
  \/ Verify
  \/ Prove
  \/ Simulate
  \/ VerifyNI
  \/ VerifySimulationConsistency

Spec == Init /\ [][Next]_vars

(***************************************************************************)
(* Construction: the constructor calls AndProof(...) and OrProof(...) on   *)
(* children that were themselves constructed                               *)
(***************************************************************************)
\* The largest number of children of a flat composite.
MaxArity == 3

Kinds == {"And", "Or"}

\* What the constructor of the kind does with the subproofs.
Construction(kind, subproofs) ==
  IF kind = "And" THEN AndProof_init(subproofs) ELSE OrProof_init(subproofs)

\* Argument lists of leaves, from none to MaxArity of them.
LeafArgs == UNION {[1 .. n -> Leaves] : n \in 0 .. MaxArity}

\* The composites the constructors build from the argument lists.
Constructed(arglists) ==
  UNION {{Composite(kind, subproofs) :
            subproofs \in {a \in arglists : Construction(kind, a) = "ok"}} :
         kind \in Kinds}

\* Composites of two leaves, and the proofs of depth at most two.
Trees1 == Constructed([1 .. 2 -> Leaves])
Proofs1 == Leaves \cup Trees1

\* Pairs with a composite among them, and the composites built from them.
PairArgs2 == {a \in [1 .. 2 -> Proofs1] : a[1] \in Trees1 \/ a[2] \in Trees1}
Trees2 == Constructed(PairArgs2)

\* A leaf beside a composite of depth three.
PairArgs3 ==
  {a \in [1 .. 2 -> Leaves \cup Trees2] :
     (a[1] \in Trees2 /\ a[2] \in Leaves) \/ (a[1] \in Leaves /\ a[2] \in Trees2)}

\* The constructor calls of the model.
Candidates ==
  {[kind |-> kind, subproofs |-> a] :
     kind \in Kinds, a \in LeafArgs \cup PairArgs2 \cup PairArgs3}

InitBuild ==
  /\ ctor \in Candidates
  /\ built = "new"
  /\ expr = NoNode
  /\ pc = "new"
  /\ Fresh

\* expr = AndProof(*subproofs) or OrProof(*subproofs)
Construct ==
  /\ pc = "new"
  /\ built' = Construction(ctor.kind, ctor.subproofs)
  /\ expr' = IF built' = "ok" THEN Composite(ctor.kind, ctor.subproofs)
             ELSE NoNode
  /\ pc' = "constructed"
  /\ UNCHANGED <<ctor, witness, prover, statement, commitment, challenge,
                 response, transcript, origin, message, vmessage, outcome,
                 sent, loop, args, ret>>

NextBuild == Construct

SpecBuild == InitBuild /\ [][NextBuild]_vars

(***************************************************************************)
(* Vocabulary of the properties                                            *)
(***************************************************************************)
\* W binds every secret of the leaf and the leaf's equation holds for it.
LeafSatisfied(node, W) ==
  /\ \A i \in 1 .. Len(node.secret_vars) : W[node.secret_vars[i]] # None
  /\ wsum([i \in 1 .. Len(node.secret_vars) |-> W[node.secret_vars[i]]],
          node.generators) = node.lhs

RECURSIVE AllLeavesSatisfied(_, _)
\* W satisfies every leaf below node.
AllLeavesSatisfied(node, W) ==
  IF node.kind = "Leaf" THEN LeafSatisfied(node, W)
  ELSE \A i \in 1 .. Len(node.subs) : AllLeavesSatisfied(node.subs[i], W)

RECURSIVE Satisfies(_, _)
\* W satisfies the statement: every child of an AND, some child of an OR.
Satisfies(node, W) ==
  CASE node.kind = "Leaf" -> LeafSatisfied(node, W)
    [] node.kind = "And" ->
         \A i \in 1 .. Len(node.subs) : Satisfies(node.subs[i], W)
    [] OTHER -> \E i \in 1 .. Len(node.subs) : Satisfies(node.subs[i], W)

RECURSIVE Usable(_, _)
\* W binds enough secrets for a prover of node to exist.
Usable(node, W) ==
  CASE node.kind = "Leaf" ->
         \A i \in 1 .. Len(node.secret_vars) : W[node.secret_vars[i]] # None
    [] node.kind = "And" ->
         \A i \in 1 .. Len(node.subs) : Usable(node.subs[i], W)
    [] OTHER -> \E i \in 1 .. Len(node.subs) : Usable(node.subs[i], W)

RECURSIVE Reliable(_, _)
\* Whatever children the OR nodes pick as real, W satisfies what is picked.
Reliable(node, W) ==
  CASE node.kind = "Leaf" -> LeafSatisfied(node, W)
    [] node.kind = "And" ->
         \A i \in 1 .. Len(node.subs) : Reliable(node.subs[i], W)
    [] OTHER ->
         /\ \E i \in 1 .. Len(node.subs) : Usable(node.subs[i], W)
         /\ \A i \in 1 .. Len(node.subs) :
              Usable(node.subs[i], W) => Reliable(node.subs[i], W)

RECURSIVE AndOnly(_)
\* The tree is made of leaves and AND nodes.
AndOnly(node) ==
  CASE node.kind = "Leaf" -> TRUE
    [] node.kind = "And" -> \A i \in 1 .. Len(node.subs) : AndOnly(node.subs[i])
    [] OTHER -> FALSE

\* W is the true witness of the expression with one value replaced.
OneValueReplaced(node, W) ==
  LET keys == Range(node.secret_vars)
  IN \E s \in keys, delta \in 1 .. (Order - 1) :
       W = Perturbed(DictFilter(TrueWitness, keys), s, delta)

RECURSIVE SplitLaw(_, _, _)
\* Below node, answering challenge c, the subchallenges of every OR sum to
\* the challenge that OR received, modulo 2^k.
SplitLaw(node, c, responses) ==
  CASE node.kind = "Or" ->
         /\ SumSeq(responses[1]) % Modulus = c % Modulus
         /\ \A i \in 1 .. Len(node.subs) :
              SplitLaw(node.subs[i], responses[1][i], responses[2][i])
    [] node.kind = "And" ->
         \A i \in 1 .. Len(node.subs) : SplitLaw(node.subs[i], c, responses[i])
    [] OTHER -> TRUE

RECURSIVE AndGroupResponses(_, _)
\* The (secret, response) pairs of the leaves reached from node through AND
\* nodes only.
AndGroupResponses(node, responses) ==
  CASE node.kind = "Leaf" ->
         {<<node.secret_vars[i], responses[i]>> :
            i \in 1 .. Len(node.secret_vars)}
    [] node.kind = "And" ->
         UNION {AndGroupResponses(node.subs[i], responses[i]) :
                  i \in 1 .. Len(node.subs)}
    [] OTHER -> {}

RECURSIVE ResponsesConsistent(_, _)
\* In every group of AND-connected leaves a secret has one response.
ResponsesConsistent(node, responses) ==
  /\ \A a, b \in AndGroupResponses(node, responses) :
       a[1] = b[1] => a[2] = b[2]
  /\ CASE node.kind = "And" ->
            \A i \in 1 .. Len(node.subs) :
              ResponsesConsistent(node.subs[i], responses[i])
       [] node.kind = "Or" ->
            \A i \in 1 .. Len(node.subs) :
              ResponsesConsistent(node.subs[i], responses[2][i])
       [] OTHER -> TRUE

RECURSIVE Occurrences(_, _)
\* The occurrences of secrets below node: <<path of the leaf, position in
\* the leaf, secret>>.
Occurrences(node, path) ==
  IF node.kind = "Leaf"
  THEN {<<path, i, node.secret_vars[i]>> : i \in 1 .. Len(node.secret_vars)}
  ELSE UNION {Occurrences(node.subs[i], Append(path, i)) :
                i \in 1 .. Len(node.subs)}

RECURSIVE OrsThroughAnds(_, _)
\* The paths of the OR nodes reached from node through AND nodes only.
OrsThroughAnds(node, path) ==
  CASE node.kind = "Or" -> {path}
    [] node.kind = "And" ->
         UNION {OrsThroughAnds(node.subs[i], Append(path, i)) :
                  i \in 1 .. Len(node.subs)}
    [] OTHER -> {}

RECURSIVE AllOrs(_, _)
\* The paths of all the OR nodes below node.
AllOrs(node, path) ==
  IF node.kind = "Leaf" THEN {}
  ELSE (IF node.kind = "Or" THEN {path} ELSE {})
       \cup UNION {AllOrs(node.subs[i], Append(path, i)) :
                     i \in 1 .. Len(node.subs)}

IsPrefix(p, q) == Len(p) <= Len(q) /\ SubSeq(q, 1, Len(p)) = p

\* Some secret occurs both below the node at orpath and elsewhere.
SharedAcross(occurrences, orpath) ==
  \E a, b \in occurrences :
    a[3] = b[3] /\ IsPrefix(orpath, a[1]) /\ ~IsPrefix(orpath, b[1])

\* Some OR reached from the AND through AND nodes only shares a secret with
\* the rest of the AND's subtree.
OrFlawed(node) ==
  /\ node.kind = "And"
  /\ \E q \in OrsThroughAnds(node, <<>>) :
       SharedAcross(Occurrences(node, <<>>), q)

RECURSIVE NoAndOrFlawed(_)
\* No AND node of the tree is OrFlawed.
NoAndOrFlawed(node) ==
  /\ ~OrFlawed(node)
  /\ node.kind # "Leaf" =>
       \A i \in 1 .. Len(node.subs) : NoAndOrFlawed(node.subs[i])


(***************************************************************************)
(* Properties of the protocol runs (Spec)                                  *)
(***************************************************************************)
\* C1: for an AND expression and a witness that satisfies all its leaves,
\* a prover exists, the interactive run is accepted whatever challenge the
\* verifier draws, and verify(prove(W, m), m) is accepted.
AndHonestRunAccepted ==
  (expr.kind = "And" /\ AllLeavesSatisfied(expr, witness)) =>
    /\ pc \notin {"absent", "failed"}
    /\ pc = "verified" => outcome = "accept"
    /\ (pc = "ni_verified" /\ origin = "prove" /\ vmessage = message) =>
         outcome = "accept"

\* An accepted interactive run of an AND with a nested AND.
AndHonestRunAcceptedWitness ==
  /\ pc = "verified"
  /\ expr.kind = "And"
  /\ expr.subs[1].kind = "And"
  /\ AllLeavesSatisfied(expr, witness)
  /\ challenge % Order # 0
  /\ outcome = "accept"

\* The honest proof of an OR from a witness W is accepted.
OrHonestProofAccepted ==
  /\ pc \notin {"absent", "failed"}
  /\ pc = "verified" => outcome = "accept"
  /\ (pc = "ni_verified" /\ origin = "prove" /\ vmessage = message) =>
       outcome = "accept"

\* C2 as stated: for an OR expression and a witness that satisfies at least
\* one of its children, the honest proof is accepted whichever child the
\* prover picks.
OrSatisfiedAccepted ==
  (expr.kind = "Or" /\ Satisfies(expr, witness)) => OrHonestProofAccepted

\* C2: for an OR expression and a witness that satisfies it, and that
\* satisfies every child an OR prover can pick (every child all of whose
\* secrets the witness binds), the honest proof is accepted whichever child
\* the prover picks.
OrReliableAccepted ==
  (expr.kind = "Or" /\ Satisfies(expr, witness) /\ Reliable(expr, witness))
    => OrHonestProofAccepted

\* An accepted run of an OR with a nested OR as the real child, from a
\* witness that leaves the other child unbound.
OrReliableAcceptedWitness ==
  /\ pc = "verified"
  /\ expr.kind = "Or"
  /\ expr.subs[2].kind = "Or"
  /\ prover.true_prover_idx = 2
  /\ Reliable(expr, witness)
  /\ ~AllLeavesSatisfied(expr, witness)
  /\ challenge % Order # 0
  /\ outcome = "accept"

\* C3: the subchallenges an OR prover returns from compute_response sum to
\* the challenge it received modulo 2^k, and so do the subchallenges of
\* every OR in a simulated transcript, also for an OR that received a
\* residual or simulated subchallenge from an enclosing OR.
ChallengeSplitLaw ==
  /\ pc \in {"responded", "verified"} /\ response # <<>> =>
       SplitLaw(expr, challenge, response)
  /\ transcript # NoTranscript =>
       SplitLaw(expr, transcript.challenge, transcript.responses)

\* A response of an OR whose real child is a nested OR that answered a
\* residual challenge different from the global one.
ChallengeSplitLawWitness ==
  /\ pc = "responded"
  /\ expr.kind = "Or"
  /\ expr.subs[2].kind = "Or"
  /\ prover.true_prover_idx = 2
  /\ response[1][2] # challenge
  /\ SumSeq(response[2][2][1]) # 0

\* C4: in every response of an honest AND prover and in every simulated
\* transcript, a secret occurring in several leaves connected through AND
\* nodes only has the same response in each of them.
AndResponseConsistency ==
  /\ pc \in {"responded", "verified"} /\ response # <<>> =>
       ResponsesConsistent(expr, response)
  /\ transcript # NoTranscript =>
       ResponsesConsistent(expr, transcript.responses)

\* A response of AND(AND(P1, P3), P2), where x0 is shared across the nested
\* AND, to a challenge that makes the responses depend on the witness.
AndResponseConsistencyWitness ==
  /\ pc = "responded"
  /\ expr.kind = "And"
  /\ expr.subs[1].kind = "And"
  /\ challenge % Order # 0
  /\ response[1][1][1] = response[2][1]

\* The witness is a satisfying one with one value replaced and the honest
\* protocol has been run to its verification.
WrongWitnessVerified ==
  /\ expr.kind = "And"
  /\ OneValueReplaced(expr, witness)
  /\ \/ pc = "verified"
     \/ pc = "ni_verified" /\ origin = "prove" /\ vmessage = message

\* C5 as stated: for an AND expression, replacing one value of a satisfying
\* witness makes verification return false.
WrongWitnessRejected ==
  WrongWitnessVerified => outcome # "accept"

RECURSIVE ProverCommitment(_, _, _, _)
\* The commitment an honest prover holding W made before it answered the
\* challenge c with responses: each response is a randomizer plus c times
\* the value W gives the secret.
ProverCommitment(node, W, c, responses) ==
  IF node.kind = "Leaf"
  THEN wsum([i \in 1 .. Len(node.secret_vars) |->
               responses[i] - c * W[node.secret_vars[i]]],
            node.generators)
  ELSE [i \in 1 .. Len(node.subs) |->
          ProverCommitment(node.subs[i], W, c, responses[i])]

\* C5: for an AND expression made of leaves and nested ANDs, replacing one
\* value of a satisfying witness makes the interactive verification return
\* false exactly when the challenge is not a multiple of the group order
\* (for a multiple it returns true).  The same holds for prove/verify,
\* except that a challenge that is not a multiple of the group order is
\* also accepted when the commitment the verifier recomputes, which then
\* differs from the prover's, hashes to the same challenge.
WrongWitnessRejectedUnlessZero ==
  (WrongWitnessVerified /\ AndOnly(expr)) =>
    IF pc = "verified"
    THEN outcome = IF challenge % Order = 0 THEN "accept" ELSE "reject"
    ELSE LET c == transcript.challenge
             made == ProverCommitment(expr, witness, c, transcript.responses)
             seen == recompute_commitment(expr, c, transcript.responses).comm
             Hash(T) == FiatShamir(prehash_statement(expr),
                                   ec_encode_commitment(expr, T), message)
         IN /\ c = Hash(made)
            /\ c % Order = 0 <=> seen = made
            /\ outcome = IF Hash(seen) = c THEN "accept" ELSE "reject"

\* A rejected interactive run from a witness with one value replaced.
WrongWitnessRejectedWitness ==
  /\ WrongWitnessVerified
  /\ AndOnly(expr)
  /\ pc = "verified"
  /\ challenge % Order # 0
  /\ outcome = "reject"


\* C6: for every AND or OR expression and every challenge, given or left
\* to the simulator, verify_simulation_consistency accepts the simulated
\* transcript.
SimulationConsistent ==
  pc = "sim_checked" => outcome = "accept"

\* An accepted simulation, for a challenge the simulator drew itself, of an
\* OR with an AND child whose leaves share a secret.
SimulationConsistentWitness ==
  /\ pc = "sim_checked"
  /\ expr.kind = "Or"
  /\ expr.subs[2].kind = "And"
  /\ transcript.responses[1][2] % Order # 0
  /\ outcome = "accept"

\* C7 as stated: a simulated transcript is rejected by the non-interactive
\* verify.
SimulationRejected ==
  (pc = "ni_verified" /\ origin = "simulate") => outcome # "accept"

\* C7: a simulated transcript is rejected by the non-interactive verify
\* exactly when its challenge is not the hash of the statement hash, the
\* commitment and the message; a simulation whose challenge is that hash
\* is accepted.
SimulationRejectedUnlessHash ==
  (pc = "ni_verified" /\ origin = "simulate") =>
    outcome = IF transcript.challenge =
                   FiatShamir(prehash_statement(expr),
                              ec_encode_commitment(expr, transcript.commitment),
                              vmessage)
              THEN "accept" ELSE "reject"

\* A rejected simulation of an OR.
SimulationRejectedWitness ==
  /\ pc = "ni_verified"
  /\ origin = "simulate"
  /\ expr.kind = "Or"
  /\ outcome = "reject"

\* verify(prove(W, m1), m) is true for m = m1 and false otherwise.
MessageBound ==
  /\ pc # "failed"
  /\ pc = "ni_verified" =>
       outcome = IF vmessage = message THEN "accept" ELSE "reject"

\* C8 as stated: for every expression and satisfying witness,
\* verify(prove(W, m1), m1) is true and verify(prove(W, m1), m2) is false
\* for m2 # m1.
MessageBinding ==
  (origin = "prove" /\ Satisfies(expr, witness)) => MessageBound

\* C8: for every expression and every witness that satisfies it, and that
\* satisfies every child an OR prover can pick, verify(prove(W, m1), m1) is
\* true and verify(prove(W, m1), m2) is false for m2 # m1.
MessageBindingReliable ==
  (origin = "prove" /\ Satisfies(expr, witness) /\ Reliable(expr, witness))
    => MessageBound

\* A proof of an OR made for one message and rejected for another.
MessageBindingWitness ==
  /\ pc = "ni_verified"
  /\ origin = "prove"
  /\ expr.kind = "Or"
  /\ Satisfies(expr, witness)
  /\ Reliable(expr, witness)
  /\ vmessage # message
  /\ outcome = "reject"

(***************************************************************************)
(* Properties of the constructors (SpecBuild)                              *)
(***************************************************************************)
\* C9: constructing an AND raises OrFlaw if and only if some secret occurs
\* both inside an OR reached from that AND through AND nodes only and
\* elsewhere in the AND's subtree outside that OR; a secret repeated only
\* inside one such OR does not raise.
OrFlawDetection ==
  (pc = "constructed" /\ ctor.kind = "And") =>
    (built = "OrFlaw" <=> OrFlawed(Composite("And", ctor.subproofs)))

\* An AND that raises for an OR under a nested AND.
OrFlawDetectionWitness ==
  /\ pc = "constructed"
  /\ ctor.kind = "And"
  /\ built = "OrFlaw"
  /\ \E i \in 1 .. Len(ctor.subproofs) :
       /\ ctor.subproofs[i].kind = "And"
       /\ OrFlawed(Composite("And", ctor.subproofs))
       /\ ~OrFlawed(ctor.subproofs[i])

\* C10 as stated: in every tree whose construction succeeds, no secret
\* occurs both inside an OR subtree and outside it elsewhere in the tree,
\* for every OR node of the tree.
OrFlawInvariantEverywhere ==
  built = "ok" =>
    \A q \in AllOrs(expr, <<>>) : ~SharedAcross(Occurrences(expr, <<>>), q)

\* C10: in every tree whose construction succeeds, for every AND node and
\* every OR reached from it through AND nodes only, no secret occurs both
\* inside that OR and elsewhere in the AND's subtree outside it.
OrFlawInvariantUnderAnd ==
  built = "ok" => NoAndOrFlawed(expr)

\* A constructed AND with an OR under a nested AND, the OR repeating a
\* secret inside itself.
OrFlawInvariantUnderAndWitness ==
  /\ pc = "constructed"
  /\ built = "ok"
  /\ expr.kind = "And"
  /\ \E i \in 1 .. Len(expr.subs) :
       /\ expr.subs[i].kind = "And"
       /\ \E j \in 1 .. Len(expr.subs[i].subs) :
            /\ expr.subs[i].subs[j].kind = "Or"
            /\ \E s \in Secrets :
                 Count(expr.subs[i].subs[j].secret_vars, s) > 1


(***************************************************************************)
(* Provers of expressions with simulation flags (SpecFlags)                *)
(***************************************************************************)
RECURSIVE Flagged(_)
\* The node with every assignment of simulation flags to it and to the
\* nodes below it, as set by proof.simulation = ... before get_prover.
Flagged(node) ==
  {[node EXCEPT !.simulation = f, !.subs = s] :
     f \in BOOLEAN,
     s \in SeqProduct([i \in 1 .. Len(node.subs) |-> Flagged(node.subs[i])])}

\* The expressions whose flags are set.
FlagExpressions ==
  {OrProof(<<P1, P3>>), OrProof(<<P1, P2, P3>>),
   OrProof(<<P3, OrProof(<<P1, P3>>)>>), OrProof(<<P3, AndProof(<<P1, P2>>)>>),
   AndProof(<<P1, P2>>), AndProof(<<P3, OrProof(<<P1, P4>>)>>)}

InitFlags ==
  /\ expr \in UNION {Flagged(e) : e \in FlagExpressions}
  /\ ctor = [kind |-> expr.kind, subproofs |-> expr.subs]
  /\ built = "ok"
  /\ pc = "init"
  /\ Fresh

NextFlags == GetProver

SpecFlags == InitFlags /\ [][NextFlags]_vars

RECURSIVE Buildable(_, _)
\* A prover of node can be built from the values: the node is not marked
\* simulated, the values it is left with are not empty, every secret of a
\* leaf has a value, every child of an AND is buildable and some child of an
\* OR that is not marked simulated is.
Buildable(node, values) ==
  LET v == DictUpdate(node.secret_values,
                      DictFilter(values, Range(node.secret_vars)))
  IN /\ ~node.simulation
     /\ v # EmptyDict
     /\ CASE node.kind = "Leaf" ->
               \A s \in Range(node.secret_vars) : v[s] # None
          [] node.kind = "And" ->
               \A i \in 1 .. Len(node.subs) : Buildable(node.subs[i], v)
          [] OTHER ->
               \E i \in 1 .. Len(node.subs) : Buildable(node.subs[i], v)

RECURSIVE RealBranches(_, _, _)
\* Below node, every OR with a prover recorded a real branch that is a
\* child not marked simulated and buildable from the values, and that is
\* the branch its prover runs.
RealBranches(node, p, values) ==
  CASE node.kind = "Leaf" -> TRUE
    [] node.kind = "And" ->
         \A i \in 1 .. Len(node.subs) :
           RealBranches(node.subs[i], p.subs[i], values)
    [] OTHER ->
         /\ node.chosen_idx \in 1 .. Len(node.subs)
         /\ p.true_prover_idx = node.chosen_idx
         /\ ~node.subs[node.chosen_idx].simulation
         /\ Buildable(node.subs[node.chosen_idx], values)
         /\ RealBranches(node.subs[node.chosen_idx], p.subs[1], values)

\* C11: whenever get_prover returns a prover, the index an OR recorded is
\* that of a child whose simulation flag is false and for which a prover
\* can be built from the witnesses; a child marked simulated is never the
\* real branch.
BranchChoice ==
  pc = "prover" => RealBranches(expr, prover, witness)

\* An OR of three children, the first marked simulated and the second not
\* buildable, whose prover runs the third.
BranchChoiceWitness ==
  /\ pc = "prover"
  /\ expr.kind = "Or"
  /\ Len(expr.subs) = 3
  /\ expr.subs[1].simulation
  /\ ~expr.subs[2].simulation
  /\ ~Buildable(expr.subs[2], witness)
  /\ expr.chosen_idx = 3


(***************************************************************************)
(* Infix composition (SpecInfix)                                           *)
(***************************************************************************)
\* AndProof(*subproofs) / OrProof(*subproofs): the error raised or "ok",
\* and the object built.
NewProof(kind, subproofs) ==
  LET res == Construction(kind, subproofs)
  IN [built |-> res,
      proof |-> IF res = "ok" THEN Composite(kind, subproofs) ELSE NoNode]

\* A variant of Proof.__and__ that nests an AND on its left instead of
\* merging it.
Proof_and_nested(self, other) ==
  IF other.kind = "And"
  THEN NewProof("And", <<self>> \o other.subs)
  ELSE NewProof("And", <<self, other>>)

\* Proof.__and__
Proof_and(self, other) ==
  IF other.kind = "And"
  THEN IF self.kind = "And"
       THEN NewProof("And", self.subs \o other.subs)
       ELSE NewProof("And", <<self>> \o other.subs)
  ELSE IF self.kind = "And"
       THEN NewProof("And", Append(self.subs, other))
       ELSE NewProof("And", <<self, other>>)

\* Proof.__or__
Proof_or(self, other) ==
  IF other.kind = "Or"
  THEN IF self.kind = "Or"
       THEN NewProof("Or", self.subs \o other.subs)
       ELSE NewProof("Or", <<self>> \o other.subs)
  ELSE IF self.kind = "Or"
       THEN NewProof("Or", Append(self.subs, other))
       ELSE NewProof("Or", <<self, other>>)

\* self & other, self | other
Infix(kind, self, other) ==
  IF kind = "And" THEN Proof_and(self, other) ELSE Proof_or(self, other)

\* The operands: the leaves and every a & b, a | b of two leaves.
InfixLeaves == Leaves \cup {P4}
InfixOperands ==
  InfixLeaves
  \cup {Infix(kind, a, b).proof : kind \in Kinds, a \in InfixLeaves,
                                  b \in InfixLeaves}

InitInfix ==
  /\ ctor \in [kind : Kinds, subproofs : [1 .. 2 -> InfixOperands]]
  /\ built = "new"
  /\ expr = NoNode
  /\ pc = "operands"
  /\ Fresh

\* expr = self & other or expr = self | other
Compose ==
  /\ pc = "operands"
  /\ LET r == Infix(ctor.kind, ctor.subproofs[1], ctor.subproofs[2])
     IN /\ built' = r.built
        /\ expr' = r.proof
  /\ pc' = "composed"
  /\ UNCHANGED <<ctor, witness, prover, statement, commitment, challenge,
                 response, transcript, origin, message, vmessage, outcome,
                 sent, loop, args, ret>>

NextInfix == Compose

SpecInfix == InitInfix /\ [][NextInfix]_vars

RECURSIVE Fringe(_)
\* The leaves of a tree, left to right.
Fringe(node) ==
  IF node.kind = "Leaf" THEN <<node>>
  ELSE Concat([i \in 1 .. Len(node.subs) |-> Fringe(node.subs[i])])

\* What an operand contributes to a composite of the kind: its leaves when
\* it is a leaf or of that kind, itself as one child otherwise.
Contribution(kind, operand) ==
  IF operand.kind \in {"Leaf", kind} THEN Fringe(operand) ELSE <<operand>>

\* C12: infix composition merges the operands of its own kind and only
\* those: the children of a & b (a | b) are the leaves of the operands that
\* are leaves or ANDs (ORs), left to right, and every operand of the other
\* kind kept as one nested child; its proof_id is that of the AndProof
\* (OrProof) constructed from these children directly.
InfixFlattening ==
  (pc = "composed" /\ built = "ok") =>
    LET children == Contribution(ctor.kind, ctor.subproofs[1])
                    \o Contribution(ctor.kind, ctor.subproofs[2])
    IN /\ expr.kind = ctor.kind
       /\ expr.subs = children
       /\ get_proof_id(expr) = get_proof_id(Composite(ctor.kind, children))
       /\ expr = Composite(ctor.kind, children)

\* (a & b) & (c & d): one AND of the four leaves.
InfixFlatteningWitness ==
  /\ pc = "composed"
  /\ built = "ok"
  /\ ctor.kind = "And"
  /\ ctor.subproofs[1].kind = "And"
  /\ ctor.subproofs[2].kind = "And"
  /\ Len(expr.subs) = 4
  /\ \A i \in 1 .. 4 : expr.subs[i].kind = "Leaf"


(***************************************************************************)
(* Frame of the operations on the expression                               *)
(***************************************************************************)
\* C13: expression trees are immutable once constructed: after get_prover,
\* prove, verify, simulate or recompute_commitment the expression still has
\* every attribute (children, simulation flag, stored secret values,
\* chosen index, subchallenges) it was constructed with.
ExpressionImmutable ==
  built = "ok" => expr = Composite(ctor.kind, ctor.subproofs)


(***************************************************************************)
(* Arity of the composites                                                 *)
(***************************************************************************)
RECURSIVE TwoOrMoreChildren(_)
\* Every composite of the tree has at least two children.
TwoOrMoreChildren(node) ==
  \/ node.kind = "Leaf"
  \/ /\ Len(node.subs) >= 2
     /\ \A i \in 1 .. Len(node.subs) : TwoOrMoreChildren(node.subs[i])

\* C14: a constructor called with fewer than two subproofs raises and
\* builds nothing; every composite built has, at every level, at least two
\* children, so that its last child is not its first.
ArityAtLeastTwo ==
  pc = "constructed" =>
    /\ Len(ctor.subproofs) < 2 => (built = "ArityTooSmall" /\ expr = NoNode)
    /\ built = "ok" =>
         /\ expr # NoNode
         /\ TwoOrMoreChildren(expr)
         /\ Len(expr.subs) # 1

\* OrProof(p): one subproof, refused.
ArityAtLeastTwoWitness ==
  /\ pc = "constructed"
  /\ ctor.kind = "Or"
  /\ Len(ctor.subproofs) = 1
  /\ built = "ArityTooSmall"
  /\ expr = NoNode


(***************************************************************************)
(* Construction over two groups (SpecGroups)                               *)
(***************************************************************************)
\* The generator of the second group.
OtherGenerator == Order + 1

\* x * g2 in the second group.
OtherMul(x) == Order + (x % OtherOrder)

\* Leaves over the second group: Q1 reuses the secret of P1, Q3 that of P3.
Q1 == DLRep(OtherMul(TrueWitness["x0"]), <<"x0">>, <<OtherGenerator>>)
Q3 == DLRep(OtherMul(TrueWitness["x2"]), <<"x2">>, <<OtherGenerator>>)
GroupLeaves == Leaves \cup {Q1, Q3}

\* Constructor calls with two or three leaves of either group, or with two
\* proofs of which one or both are composites of two leaves.
GroupCandidates ==
  LET trees == Constructed([1 .. 2 -> GroupLeaves])
  IN {[kind |-> kind, subproofs |-> a] :
        kind \in Kinds,
        a \in [1 .. 2 -> GroupLeaves \cup trees] \cup [1 .. 3 -> GroupLeaves]}

InitGroups ==
  /\ ctor \in GroupCandidates
  /\ built = "new"
  /\ expr = NoNode
  /\ pc = "new"
  /\ Fresh

NextGroups == Construct

SpecGroups == InitGroups /\ [][NextGroups]_vars

\* The (secret, generator) pairs of the leaves below the subproofs.
SecretGeneratorPairs(subproofs) ==
  UNION {UNION {{<<leaf.secret_vars[k], leaf.generators[k]>> :
                   k \in 1 .. Len(leaf.secret_vars)} :
                leaf \in Range(Fringe(subproofs[i]))} :
         i \in 1 .. Len(subproofs)}

\* Some Secret is paired with generators of groups of different order.
MixedOrders(subproofs) ==
  \E p, q \in SecretGeneratorPairs(subproofs) :
    p[1] = q[1] /\ GroupOrder(p[2]) # GroupOrder(q[2])

\* C15: constructing an AND or an OR in which a Secret is paired, anywhere
\* below, with generators of groups of different order raises and builds
\* no expression, so that there is nothing to get a prover or a verifier
\* from.
GroupCoherence ==
  (pc = "constructed" /\ MixedOrders(ctor.subproofs)) =>
    (built = "GroupMismatch" /\ expr = NoNode)

\* AndProof(p1, q1) with p1 and q1 over one Secret and two groups.
GroupCoherenceWitness ==
  /\ pc = "constructed"
  /\ ctor.kind = "And"
  /\ ctor.subproofs = <<P1, Q1>>
  /\ built = "GroupMismatch"
  /\ expr = NoNode


(***************************************************************************)
(* The challenge of an AND verifier (SpecChallenge)                        *)
(***************************************************************************)
\* Statement hashes a commitment can come with.
Statements == {prehash_statement(e) : e \in Expressions}

\* verifier.send_challenge(argument, mute) on what a prover, honest about
\* its commitment, sends: the pair of a statement hash and the commitment,
\* or, to a muted verifier, possibly the commitment alone.
SendChallengeTo ==
  \E st \in Statements, mute \in BOOLEAN, packed \in BOOLEAN :
    /\ mute \/ packed
    /\ SendChallengeWith(IF packed THEN <<st, commitment>> ELSE commitment,
                         mute)

InitChallenge ==
  /\ expr \in {e \in Expressions : e.kind = "And"}
  /\ ctor = [kind |-> expr.kind, subproofs |-> expr.subs]
  /\ built = "ok"
  /\ pc = "init"
  /\ Fresh

NextChallenge == GetProver \/ Commit \/ SendChallengeTo

SpecChallenge == InitChallenge /\ [][NextChallenge]_vars

\* C16: an AND verifier whose send_challenge is called with mute false on a
\* pair whose statement hash is not the prehash of its expression raises
\* the statement mismatch and has no challenge; on a pair with the right
\* hash it stores the commitment of the pair and draws a challenge; with
\* mute true nothing is compared, the whole argument is stored as the
\* commitment and a challenge is drawn.
StatementChecked ==
  (pc \in {"verified", "challenged"}) =>
    IF sent.mute
    THEN /\ pc = "challenged"
         /\ outcome = "none"
         /\ commitment = sent.commitment
         /\ challenge \in Challenges
    ELSE IF sent.commitment[1] # ec_encode_id(expr)
    THEN /\ pc = "verified"
         /\ outcome = "StatementMismatch"
         /\ challenge = NoneChal
    ELSE /\ pc = "challenged"
         /\ outcome = "none"
         /\ commitment = sent.commitment[2]
         /\ challenge \in Challenges

\* A pair with the hash of another statement, refused.
StatementCheckedWitness ==
  /\ pc = "verified"
  /\ ~sent.mute
  /\ sent.commitment[1] # ec_encode_id(expr)
  /\ sent.commitment[1] \in Statements
  /\ outcome = "StatementMismatch"
  /\ challenge = NoneChal


(***************************************************************************)
(* Verification of altered OR responses (SpecTamper)                       *)
(***************************************************************************)
InitTamper ==
  /\ expr \in {e \in Expressions : e.kind = "Or"}
  /\ ctor = [kind |-> expr.kind, subproofs |-> expr.subs]
  /\ built = "ok"
  /\ pc = "init"
  /\ Fresh

\* Before verifier.verify(response), one subchallenge of the response is
\* replaced by another value.
Tamper ==
  /\ pc = "responded"
  /\ origin = "none"
  /\ \E i \in 1 .. Len(response[1]) :
       \E c \in Challenges \ {response[1][i]} :
         response' = <<[response[1] EXCEPT ![i] = c], response[2]>>
  /\ origin' = "tampered"
  /\ UNCHANGED <<pc, ctor, built, expr, witness, prover, statement,
                 commitment, challenge, transcript, message, vmessage,
                 outcome, sent, loop, args, ret>>

NextTamper ==
  GetProver \/ Commit \/ SendChallenge \/ ComputeResponse \/ Tamper \/ Verify

SpecTamper == InitTamper /\ [][NextTamper]_vars

\* The subchallenges of the response given to the OR verifier do not add up
\* to its challenge modulo 2^k.
BadChallengeSum ==
  /\ expr.kind = "Or"
  /\ SumSeq(response[1]) % Modulus # challenge % Modulus

\* C17: verification of an OR response whose subchallenges do not sum to
\* the global challenge modulo 2^k completes and returns false: it ends
\* with the outcome "reject" and not with an error raised.
BadSumReturnsFalse ==
  (pc = "verified" /\ origin = "tampered" /\ BadChallengeSum) =>
    outcome = "reject"


(***************************************************************************)
(* What get_prover returns (SpecFlags)                                     *)
(***************************************************************************)
RECURSIVE ProverOf(_, _, _)
\* p is a prover for node from the values: of the kind of node, a leaf's
\* prover holding the values of the leaf's own secrets and no other, an
\* AND's one prover per child in child order, an OR's the prover of its
\* real branch.
ProverOf(node, p, values) ==
  LET v == DictUpdate(node.secret_values,
                      DictFilter(values, Range(node.secret_vars)))
  IN /\ p.kind = node.kind
     /\ CASE node.kind = "Leaf" ->
               /\ p.secret_values = v
               /\ Keys(p.secret_values) \subseteq Range(node.secret_vars)
          [] node.kind = "And" ->
               /\ Len(p.subs) = Len(node.subs)
               /\ \A i \in 1 .. Len(node.subs) :
                    ProverOf(node.subs[i], p.subs[i], v)
          [] OTHER ->
               /\ Len(p.subs) = 1
               /\ p.true_prover_idx \in 1 .. Len(node.subs)
               /\ ProverOf(node.subs[p.true_prover_idx], p.subs[1], v)

\* Some child of the AND cannot build a prover from the values filtered to
\* its secrets.
SomeChildUnbuildable ==
  \E i \in 1 .. Len(expr.subs) : ~Buildable(expr.subs[i], witness)

\* C18 as stated: AndProof.get_prover returns absent when some child cannot
\* build its prover from the filtered witness map, and otherwise always an
\* AND prover with one child prover per child, in child order.
AndProverWheneverChildren ==
  (expr.kind = "And" /\ pc \in {"prover", "absent"}) =>
    IF SomeChildUnbuildable
    THEN pc = "absent" /\ prover = NoProver
    ELSE pc = "prover" /\ ProverOf(expr, prover, witness)

\* C18, amended: AndProof.get_prover returns absent when the AND is marked
\* simulated or some child cannot build its prover from the filtered
\* witness map, and otherwise an AND prover with one child prover per
\* child, in child order.
AndProverUnlessSimulated ==
  (expr.kind = "And" /\ pc \in {"prover", "absent"}) =>
    IF expr.simulation \/ SomeChildUnbuildable
    THEN pc = "absent" /\ prover = NoProver
    ELSE pc = "prover" /\ ProverOf(expr, prover, witness)

\* An AND of a leaf and an OR whose prover holds the leaf's prover and the
\* OR's, in this order.
AndProverUnlessSimulatedWitness ==
  /\ pc = "prover"
  /\ expr.kind = "And"
  /\ ~expr.simulation
  /\ expr.subs[2].kind = "Or"
  /\ prover.kind = "And"
  /\ prover.subs[1].kind = "Leaf"
  /\ prover.subs[2].kind = "Or"

\* C19: OrProof.get_prover on an OR that is not marked simulated returns a
\* prover exactly when some child that is not marked simulated can build a
\* prover from the witness map filtered to its secrets, whichever child is
\* drawn first; otherwise it returns absent.
OrProverWheneverCandidate ==
  (expr.kind = "Or" /\ ~expr.simulation /\ pc \in {"prover", "absent"}) =>
    IF \E i \in 1 .. Len(expr.subs) : Buildable(expr.subs[i], witness)
    THEN pc = "prover" /\ ProverOf(expr, prover, witness)
    ELSE pc = "absent" /\ prover = NoProver

\* An OR whose prover runs a child drawn after another child, not marked
\* simulated, was asked for a prover and had none.
OrProverWheneverCandidateWitness ==
  /\ pc = "prover"
  /\ expr.kind = "Or"
  /\ \E i \in 1 .. Len(expr.subs) :
       /\ i # expr.chosen_idx
       /\ ~expr.subs[i].simulation
       /\ expr.subs[i].secret_values # EmptyDict
       /\ ~Buildable(expr.subs[i], witness)


(***************************************************************************)
(* Secrets bound to a value at construction (SpecBound)                    *)
(***************************************************************************)
\* A leaf over the bound secret x3, built from its bound value.
P5 == DLRep(wsum(<<SecretValue("x3")>>, <<2>>), <<"x3">>, <<2>>)

\* ANDs of the leaf over the bound secret and proofs over unbound ones.
BoundExpressions ==
  {AndProof(<<P5, P3>>), AndProof(<<P5, P2>>), AndProof(<<P1, P5, P3>>),
   AndProof(<<P5, OrProof(<<P1, P4>>)>>)}

InitBound ==
  /\ expr \in BoundExpressions
  /\ ctor = [kind |-> expr.kind, subproofs |-> expr.subs]
  /\ built = "ok"
  /\ pc = "init"
  /\ Fresh

NextBound == Prove \/ VerifyNI

SpecBound == InitBound /\ [][NextBound]_vars

\* The value prove uses for each secret of the expression: that of the
\* witness map when it has one, the bound value of the Secret otherwise.
EffectiveValues ==
  [s \in Secrets |->
     IF s \notin Range(expr.secret_vars) THEN None
     ELSE IF witness[s] # None THEN witness[s] ELSE SecretValue(s)]

\* Every secret of the expression is bound or in the witness map.
AllSecretsCovered ==
  \A s \in Range(expr.secret_vars) : EffectiveValues[s] # None

\* The witness map leaves out a bound secret.
BoundSecretOmitted ==
  \E s \in Range(expr.secret_vars) :
    witness[s] = None /\ SecretValue(s) # None

\* C20: when every secret of the expression is bound on its Secret object
\* or present in the witness map, prove succeeds, the values it proves with
\* are those of the witness map where it has one and the bound ones
\* elsewhere, and the transcript of right values verifies (for the message
\* it was made for).
BoundSecretsUsed ==
  (pc \in {"proved", "failed", "ni_verified"} /\ origin = "prove"
   /\ AllSecretsCovered) =>
    /\ pc # "failed"
    /\ transcript # NoTranscript
    /\ expr.secret_values = EffectiveValues
    /\ \A i \in 1 .. Len(expr.subs) :
         expr.subs[i].kind = "Leaf" =>
           expr.subs[i].secret_values
             = DictFilter(EffectiveValues, Range(expr.subs[i].secret_vars))
    /\ (pc = "ni_verified" /\ vmessage = message
        /\ AllLeavesSatisfied(expr, EffectiveValues)) => outcome = "accept"

\* prove({x2: 1}) on AND(P5, P3), with x3 left to its bound value, verified.
BoundSecretsUsedWitness ==
  /\ pc = "ni_verified"
  /\ origin = "prove"
  /\ BoundSecretOmitted
  /\ AllSecretsCovered
  /\ vmessage = message
  /\ outcome = "accept"


(***************************************************************************)
(* The draw loop of OrProof.get_prover, step by step (SpecDraw)            *)
(***************************************************************************)
\* The most draws a call is followed for.
MaxAttempts == 4

\* ORs of two and of three leaves.
DrawExpressions == {OrProof(<<P1, P3>>), OrProof(<<P1, P2, P3>>)}

InitDraw ==
  /\ expr \in UNION {Flagged(e) : e \in DrawExpressions}
  /\ ctor = [kind |-> expr.kind, subproofs |-> expr.subs]
  /\ built = "ok"
  /\ pc = "init"
  /\ Fresh

\* OrProof.get_prover up to the loop: the merge of the secrets, the early
\* returns, the candidates and the first draw with its attempt.
DrawEnter ==
  /\ pc = "init"
  /\ \E W \in Witnesses(Range(expr.secret_vars)) :
       LET values == DictUpdate(expr.secret_values, W)
           proof == [expr EXCEPT !.secret_values = values]
           candidates == OrProof_candidates(proof)
       IN /\ witness' = W
          /\ IF proof.simulation \/ values = EmptyDict \/ candidates = {}
             THEN /\ expr' = proof
                  /\ pc' = "absent"
                  /\ UNCHANGED <<prover, loop>>
             ELSE \E idx \in candidates :
                    \E r \in sub_proof_prover(proof.subs[idx], values) :
                      /\ expr' = [proof EXCEPT !.chosen_idx = idx,
                                               !.subs[idx] = r.proof]
                      /\ prover' = r.prover
                      /\ loop' = [possible |-> candidates, attempts |-> <<idx>>]
                      /\ pc' = "drawn"
  /\ UNCHANGED <<ctor, built, statement, commitment, challenge, response,
                 transcript, origin, message, vmessage, outcome, sent, args,
                 ret>>

\* One turn of the while loop: the candidate that gave no prover is removed;
\* the call returns None when none is left, else another one is drawn and
\* asked.
DrawAgain ==
  /\ pc = "drawn"
  /\ prover = NoProver
  /\ Len(loop.attempts) < MaxAttempts
  /\ LET possible == OrProof_remaining(loop.possible, expr.chosen_idx)
     IN IF possible = {}
        THEN /\ loop' = [loop EXCEPT !.possible = possible]
             /\ pc' = "absent"
             /\ UNCHANGED <<expr, prover>>
        ELSE \E idx \in possible :
               \E r \in sub_proof_prover(expr.subs[idx], expr.secret_values) :
                 /\ expr' = [expr EXCEPT !.chosen_idx = idx,
                                         !.subs[idx] = r.proof]
                 /\ prover' = r.prover
                 /\ loop' = [possible |-> possible,
                             attempts |-> Append(loop.attempts, idx)]
                 /\ pc' = "drawn"
  /\ UNCHANGED <<ctor, built, witness, statement, commitment, challenge,
                 response, transcript, origin, message, vmessage, outcome,
                 sent, args, ret>>

\* return OrProver(self, valid_prover)
DrawReturn ==
  /\ pc = "drawn"
  /\ prover # NoProver
  /\ \E p \in OrProver_init(expr, prover) : prover' = p
  /\ pc' = "prover"
  /\ UNCHANGED <<ctor, built, expr, witness, statement, commitment,
                 challenge, response, transcript, origin, message, vmessage,
                 outcome, sent, loop, args, ret>>

NextDraw == DrawEnter \/ DrawAgain \/ DrawReturn

\* The step DrawReturn takes, by what it does to pc.
DrawReturns == pc = "drawn" /\ prover # NoProver /\ pc' = "prover"

\* The call runs on: no step of it waits for anything, the entry and the
\* turns of the loop are taken, and so is the return.
SpecDraw ==
  /\ InitDraw
  /\ [][NextDraw]_vars
  /\ WF_vars(DrawEnter \/ DrawAgain)
  /\ WF_pc(DrawReturns)

\* The children that were candidates when the call began.
CandidatesAtCall ==
  {i \in 1 .. Len(ctor.subproofs) : ~ctor.subproofs[i].simulation}

\* Within the loop: every attempt is on a candidate, no candidate is
\* attempted twice, the candidates that failed are no longer possible and
\* the one being attempted is the last drawn.
DrawLoopBounded ==
  pc \in {"drawn", "prover", "absent"} =>
    /\ Range(loop.attempts) \subseteq CandidatesAtCall
    /\ \A i, j \in 1 .. Len(loop.attempts) :
         loop.attempts[i] = loop.attempts[j] => i = j
    /\ Len(loop.attempts) <= Cardinality(CandidatesAtCall)
    /\ loop.attempts # <<>> =>
         /\ expr.chosen_idx = loop.attempts[Len(loop.attempts)]
         /\ \A i \in 1 .. (Len(loop.attempts) - 1) :
              loop.attempts[i] \notin loop.possible
    /\ pc = "prover" => prover.kind = "Or"
    /\ pc = "absent" => prover = NoProver

\* C21: the retry loop of OrProof.get_prover terminates: each child not
\* marked simulated is attempted at most once, a candidate that failed is
\* removed before the next draw, there are at most as many attempts as
\* candidates, and the call ends with a prover or with absent.
DrawLoopTerminates ==
  /\ []DrawLoopBounded
  /\ <>(pc \in {"prover", "absent"})

\* A call that ends absent after attempting all three children of an OR.
DrawLoopTerminatesWitness ==
  /\ pc = "absent"
  /\ Len(loop.attempts) = 3
  /\ loop.possible = {}


(***************************************************************************)
(* The moves of an OR prover (SpecAlign)                                   *)
(***************************************************************************)
\* An OR of three leaves, an OR in an OR and an OR under an AND.
AlignExpressions ==
  {OrProof(<<P1, P4, P3>>), OrProof(<<P3, OrProof(<<P1, P3>>)>>),
   AndProof(<<P3, OrProof(<<P1, P4>>)>>)}

InitAlign ==
  /\ expr \in AlignExpressions
  /\ ctor = [kind |-> expr.kind, subproofs |-> expr.subs]
  /\ built = "ok"
  /\ pc = "init"
  /\ Fresh

NextAlign == GetProver \/ Commit \/ SendChallenge \/ ComputeResponse

SpecAlign == InitAlign /\ [][NextAlign]_vars

\* The stored simulation of child j of an OR whose real branch is real.
StoredSimulation(p, j) ==
  p.simulations[IF j < p.true_prover_idx THEN j ELSE j - 1]

RECURSIVE StoredSimulations(_)
\* The simulations stored in a prover tree, node by node.
StoredSimulations(p) ==
  <<p.simulations, [i \in 1 .. Len(p.subs) |-> StoredSimulations(p.subs[i])]>>

RECURSIVE SimulationsReady(_, _)
\* Every OR prover of the tree holds one simulation per child other than
\* its real branch.
SimulationsReady(node, p) ==
  CASE node.kind = "Leaf" -> TRUE
    [] node.kind = "And" ->
         \A i \in 1 .. Len(node.subs) : SimulationsReady(node.subs[i], p.subs[i])
    [] OTHER ->
         /\ p.true_prover_idx \in 1 .. Len(node.subs)
         /\ Len(p.simulations) = Len(node.subs) - 1
         /\ SimulationsReady(node.subs[p.true_prover_idx], p.subs[1])

RECURSIVE AlignedPrecommitment(_, _)
\* The precommitment of every OR prover is empty when every slot is, and
\* else holds at each position but the real one what the stored simulation
\* of that child holds.
AlignedPrecommitment(node, p) ==
  CASE node.kind = "Leaf" -> TRUE
    [] node.kind = "And" ->
         \A i \in 1 .. Len(node.subs) :
           AlignedPrecommitment(node.subs[i], p.subs[i])
    [] OTHER ->
         /\ LET pre == precommit(node, p)
            IN IF pre = NoPrecommitment
               THEN \A j \in 1 .. Len(node.subs) :
                      j # p.true_prover_idx =>
                        StoredSimulation(p, j).precommitment = NoPrecommitment
               ELSE \A j \in 1 .. Len(node.subs) :
                      j # p.true_prover_idx =>
                        pre[j] = StoredSimulation(p, j).precommitment
         /\ AlignedPrecommitment(node.subs[p.true_prover_idx], p.subs[1])

RECURSIVE AlignedCommitment(_, _, _)
\* In the commitment of every OR prover, each position but the real one
\* holds the commitment of the stored simulation of that child.
AlignedCommitment(node, p, comm) ==
  CASE node.kind = "Leaf" -> comm = wsum(p.ks, node.generators)
    [] node.kind = "And" ->
         \A i \in 1 .. Len(node.subs) :
           AlignedCommitment(node.subs[i], p.subs[i], comm[i])
    [] OTHER ->
         /\ Len(comm) = Len(node.subs)
         /\ \A j \in 1 .. Len(node.subs) :
              j # p.true_prover_idx =>
                comm[j] = StoredSimulation(p, j).commitment
         /\ AlignedCommitment(node.subs[p.true_prover_idx], p.subs[1],
                              comm[p.true_prover_idx])

RECURSIVE AlignedResponse(_, _, _, _)
\* In the response of every OR prover to the challenge c, each position
\* but the real one holds the subchallenge and the responses of the stored
\* simulation of that child, and the real one the complement of these
\* subchallenges to c and the real subprover's answer to it.
AlignedResponse(node, p, c, resp) ==
  CASE node.kind = "Leaf" -> resp = DLRepProver_compute_response(node, p, c)
    [] node.kind = "And" ->
         \A i \in 1 .. Len(node.subs) :
           AlignedResponse(node.subs[i], p.subs[i], c, resp[i])
    [] OTHER ->
         /\ Len(resp[1]) = Len(node.subs)
         /\ Len(resp[2]) = Len(node.subs)
         /\ \A j \in 1 .. Len(node.subs) :
              j # p.true_prover_idx =>
                /\ resp[1][j] = StoredSimulation(p, j).challenge
                /\ resp[2][j] = StoredSimulation(p, j).responses
         /\ SumSeq(resp[1]) % Modulus = c % Modulus
         /\ AlignedResponse(node.subs[p.true_prover_idx], p.subs[1],
                            resp[1][p.true_prover_idx],
                            resp[2][p.true_prover_idx])

\* The outputs of the moves made so far are aligned with the simulations
\* the provers hold, which are there before the commitment and before the
\* challenge.
OrProverAlignedNow ==
  /\ pc = "prover" =>
       /\ SimulationsReady(expr, prover)
       /\ AlignedPrecommitment(expr, prover)
       /\ commitment = <<>>
       /\ challenge = NoneChal
  /\ pc \in {"committed", "challenged", "responded"} =>
       /\ SimulationsReady(expr, prover)
       /\ AlignedPrecommitment(expr, prover)
       /\ AlignedCommitment(expr, prover, commitment)
  /\ pc = "responded" => AlignedResponse(expr, prover, challenge, response)

\* No move after the construction of the prover changes a stored simulation.
SimulationsKept ==
  pc \in {"prover", "committed", "challenged"} =>
    StoredSimulations(prover') = StoredSimulations(prover)

\* C22: the simulations of the children other than the real one are stored
\* when the OR prover is built, before commit and before the challenge, and
\* are never changed; in what precommit, internal_commit and
\* compute_response return, every position other than the real one carries
\* the precommitment, commitment, subchallenge and responses of the stored
\* simulation of that child, and the real position the real child's value.
OrProverAligned ==
  /\ []OrProverAlignedNow
  /\ [][SimulationsKept]_vars

\* An OR of three children answered with the second as real branch, the
\* first and third positions carrying two different simulated subchallenges.
OrProverAlignedWitness ==
  /\ pc = "responded"
  /\ expr.kind = "Or"
  /\ Len(expr.subs) = 3
  /\ prover.true_prover_idx = 2
  /\ response[1][1] = prover.simulations[1].challenge
  /\ response[1][3] = prover.simulations[2].challenge
  /\ response[1][1] # response[1][3]


RECURSIVE NeverRecomputed(_)
\* No OR of the tree has recorded subchallenges: none has recomputed.
NeverRecomputed(node) ==
  /\ node.kind = "Or" => node.or_challenges = <<>>
  /\ \A i \in 1 .. Len(node.subs) : NeverRecomputed(node.subs[i])

\* What each child of the OR recomputes from its own subchallenge and its
\* own response.
ChildRecomputation(i) ==
  recompute_commitment(expr.subs[i], response[1][i], response[2][i])

\* C23: verification by an OR of a response whose subchallenges do not sum
\* to the challenge modulo 2^k ends with the inconsistent-challenge error,
\* and the sum is compared first: no child has recomputed anything then.
\* When the sum is right, the commitment compared with the one received is
\* the list, in child order, of what child i recomputes from subchallenge i
\* and response i.
ChallengeSumCheckedFirst ==
  (pc = "verified" /\ expr.kind = "Or") =>
    /\ expr.or_challenges = response[1]
    /\ IF BadChallengeSum
       THEN /\ outcome = "InconsistentChallenge"
            /\ \A i \in 1 .. Len(expr.subs) : NeverRecomputed(expr.subs[i])
       ELSE /\ \A i \in 1 .. Len(expr.subs) :
                 ChildRecomputation(i).proof = expr.subs[i]
            /\ (\A i \in 1 .. Len(expr.subs) : ~ChildRecomputation(i).raised)
                 => outcome =
                      IF commitment = [i \in 1 .. Len(expr.subs) |->
                                         ChildRecomputation(i).comm]
                      THEN "accept" ELSE "reject"

\* An OR holding an OR, verified on a response whose subchallenges do not
\* sum to the challenge: the error, and the inner OR has recorded nothing.
ChallengeSumCheckedFirstWitness ==
  /\ pc = "verified"
  /\ expr.kind = "Or"
  /\ BadChallengeSum
  /\ outcome = "InconsistentChallenge"
  /\ expr.subs[2].kind = "Or"
  /\ expr.subs[2].or_challenges = <<>>



(***************************************************************************)
(* Response consistency on altered responses (SpecConsistency)             *)
(***************************************************************************)
\* Expressions in which siblings of an AND, or of an OR, share a secret, an
\* AND in an OR and an OR in an AND.
ConsistencyExpressions ==
  {AndProof(<<P1, P2>>), AndProof(<<AndProof(<<P1, P3>>), P2>>),
   OrProof(<<P1, P2>>), OrProof(<<P3, AndProof(<<P1, P2>>)>>),
   AndProof(<<P3, OrProof(<<P1, P4>>)>>)}

InitConsistency ==
  /\ expr \in ConsistencyExpressions
  /\ ctor = [kind |-> expr.kind, subproofs |-> expr.subs]
  /\ built = "ok"
  /\ pc = "init"
  /\ Fresh

RECURSIVE Tamperings(_, _)
\* The responses for node that differ from responses in the answer of one
\* leaf for one of its secrets.
Tamperings(node, responses) ==
  CASE node.kind = "And" ->
         UNION {{[responses EXCEPT ![i] = t] :
                   t \in Tamperings(node.subs[i], responses[i])} :
                i \in 1 .. Len(node.subs)}
    [] node.kind = "Or" ->
         UNION {{<<responses[1], [responses[2] EXCEPT ![i] = t]>> :
                   t \in Tamperings(node.subs[i], responses[2][i])} :
                i \in 1 .. Len(node.subs)}
    [] OTHER ->
         UNION {{[responses EXCEPT ![k] = v] : v \in Scalars \ {responses[k]}} :
                k \in 1 .. Len(responses)}

\* Before the verifier sees the response, one answer in it is replaced.
TamperResponse ==
  /\ pc = "responded"
  /\ origin = "none"
  /\ response' \in Tamperings(expr, response)
  /\ origin' = "tampered"
  /\ UNCHANGED <<pc, ctor, built, expr, witness, prover, statement,
                 commitment, challenge, transcript, message, vmessage,
                 outcome, sent, loop, args, ret>>

\* The dictionaries a caller passes: an empty one, or one that records an
\* answer for one secret.
PassedDicts ==
  {EmptyDict} \cup {[EmptyDict EXCEPT ![s] = v] : s \in {"x0", "x1"},
                                                   v \in Scalars}

\* verifier.check_responses_consistency(response, responses_dict) on the
\* root verifier.
CheckConsistency ==
  /\ pc = "responded"
  /\ \E d \in PassedDicts :
       /\ args' = [responses |-> response, responses_dict |-> d]
       /\ ret' = check_responses_consistency(expr, response, d)
  /\ pc' = "checked"
  /\ UNCHANGED <<ctor, built, expr, witness, prover, statement, commitment,
                 challenge, response, transcript, origin, message, vmessage,
                 outcome, sent, loop>>

NextConsistency ==
  \/ GetProver \/ Commit \/ SendChallenge \/ ComputeResponse
  \/ TamperResponse \/ CheckConsistency \/ Verify

SpecConsistency == InitConsistency /\ [][NextConsistency]_vars

RECURSIVE Answers(_, _)
\* The pairs (secret, answer) that node reports to the dictionary of the
\* AND above it: those of its leaves reached through ANDs only.
Answers(node, responses) ==
  CASE node.kind = "And" ->
         UNION {Answers(node.subs[i], responses[i]) :
                  i \in 1 .. Len(node.subs)}
    [] node.kind = "Or" -> {}
    [] OTHER -> {<<node.secret_vars[k], responses[k]>> :
                   k \in 1 .. Len(node.secret_vars)}

\* No secret has two different answers in the set of pairs.
Agree(pairs) == \A p, q \in pairs : p[1] = q[1] => p[2] = q[2]

DictPairs(d) == {<<s, d[s]>> : s \in Keys(d)}

RECURSIVE InnerConsistent(_, _)
\* Every OR reached from node through ANDs only has each of its children
\* consistent within itself.
InnerConsistent(node, responses) ==
  CASE node.kind = "And" ->
         \A i \in 1 .. Len(node.subs) :
           InnerConsistent(node.subs[i], responses[i])
    [] node.kind = "Or" ->
         \A i \in 1 .. Len(node.subs) :
           /\ InnerConsistent(node.subs[i], responses[2][i])
           /\ Agree(Answers(node.subs[i], responses[2][i]))
    [] OTHER -> TRUE

\* The answers of the first n children of an AND.
AnswersUpTo(node, responses, n) ==
  UNION {Answers(node.subs[i], responses[i]) : i \in 1 .. n}

\* The first n children of an AND agree with the dictionary and with each
\* other.
ConsistentUpTo(node, responses, d, n) ==
  /\ Agree(DictPairs(d) \cup AnswersUpTo(node, responses, n))
  /\ \A i \in 1 .. n : InnerConsistent(node.subs[i], responses[i])

\* Two children of the AND answer a secret they share differently.
SiblingsDisagree(node, responses) ==
  \E i, j \in 1 .. Len(node.subs) :
    /\ i # j
    /\ ~Agree(Answers(node.subs[i], responses[i])
              \cup Answers(node.subs[j], responses[j]))

\* C24: AndVerifier.check_responses_consistency walks its children in order
\* with one dictionary keyed by Secret: it returns true, with every answer
\* recorded, iff all the answers agree with the dictionary and with each
\* other; it returns false at the first child whose answers differ from
\* what is recorded, with nothing recorded for the children after it.  A
\* response in which two children of an AND answer a shared secret
\* differently is rejected by verification.
AndConsistencyChecked ==
  /\ (pc = "checked" /\ expr.kind = "And") =>
       LET n == Len(expr.subs)
           d == args.responses_dict
           r == args.responses
       IN /\ ret.ok = ConsistentUpTo(expr, r, d, n)
          /\ ret.ok => DictPairs(ret.dict) = DictPairs(d) \cup Answers(expr, r)
          /\ ~ret.ok =>
               \E i \in 1 .. n :
                 /\ ConsistentUpTo(expr, r, d, i - 1)
                 /\ ~ConsistentUpTo(expr, r, d, i)
                 /\ DictPairs(d) \cup AnswersUpTo(expr, r, i - 1)
                      \subseteq DictPairs(ret.dict)
                 /\ Keys(ret.dict) \subseteq
                      Keys(d) \cup {p[1] : p \in AnswersUpTo(expr, r, i)}
  /\ (pc = "verified" /\ expr.kind = "And"
        /\ SiblingsDisagree(expr, response)) =>
       outcome = "InconsistentResponses"

\* An AND whose second child answers the shared secret differently than its
\* first child is rejected.
AndConsistencyCheckedWitness ==
  /\ pc = "verified"
  /\ expr.kind = "And"
  /\ origin = "tampered"
  /\ SiblingsDisagree(expr, response)
  /\ outcome = "InconsistentResponses"

\* C25: OrVerifier.check_responses_consistency is per child: its result is
\* true iff every child is consistent within itself, whatever the
\* dictionary passed and whatever the other children answer, and the
\* dictionary passed comes back holding, for every secret no leaf outside
\* an OR answers, what it held before.
OrConsistencyPerChild ==
  pc = "checked" =>
    /\ expr.kind = "Or" =>
         /\ ret.dict = args.responses_dict
         /\ ret.ok = InnerConsistent(expr, args.responses)
    /\ \A s \in Secrets :
         s \notin {p[1] : p \in Answers(expr, args.responses)}
           => ret.dict[s] = args.responses_dict[s]
    /\ expr.kind = "And" =>
         ret.ok = ConsistentUpTo(expr, args.responses, args.responses_dict,
                                 Len(expr.subs))

\* Two children of an OR answer the secret they share differently, the
\* dictionary passed holds a third answer for it, and the check is true.
OrConsistencyPerChildWitness ==
  /\ pc = "checked"
  /\ expr.kind = "Or"
  /\ expr.subs[1].kind = "Leaf"
  /\ expr.subs[2].kind = "Leaf"
  /\ expr.subs[1].secret_vars[1] = expr.subs[2].secret_vars[1]
  /\ args.responses[2][1][1] # args.responses[2][2][1]
  /\ args.responses_dict["x0"] \notin
       {None, args.responses[2][1][1], args.responses[2][2][1]}
  /\ ret.ok



(***************************************************************************)
(* Proof.update_randomizers called on its own (SpecRandomizers)            *)
(***************************************************************************)
\* The ANDs update_randomizers is called on.
RandomizerExpressions ==
  {AndProof(<<P1, P2>>), AndProof(<<P1, P2, P3>>),
   AndProof(<<P3, OrProof(<<P1, P4>>)>>)}

\* What a caller passes: None, or a dictionary over any of the secrets.
RandomizerDicts == {NoneDict} \cup [Secrets -> Scalars \cup {None}]

InitRandomizers ==
  /\ expr \in RandomizerExpressions
  /\ ctor = [kind |-> expr.kind, subproofs |-> expr.subs]
  /\ built = "ok"
  /\ pc = "init"
  /\ Fresh

\* ret = proof.update_randomizers(randomizers_dict)
UpdateRandomizers ==
  /\ pc = "init"
  /\ \E d \in RandomizerDicts :
       /\ args' = [randomizers_dict |-> d]
       /\ ret' \in update_randomizers(expr, d)
  /\ pc' = "returned"
  /\ UNCHANGED <<ctor, built, expr, witness, prover, statement, commitment,
                 challenge, response, transcript, origin, message, vmessage,
                 outcome, sent, loop>>

NextRandomizers == UpdateRandomizers

SpecRandomizers == InitRandomizers /\ [][NextRandomizers]_vars

\* C26: the map update_randomizers returns contains every secret of the
\* node and agrees with the map passed on every key of that map; a passed
\* map that covers all the secrets is returned as it is, and when none is
\* passed the map returned is one over the secrets of the node.
RandomizersCompleted ==
  pc = "returned" =>
    LET d == args.randomizers_dict
        secrets == Range(expr.secret_vars)
    IN /\ secrets \subseteq Keys(ret)
       /\ d # NoneDict => \A s \in Keys(d) : ret[s] = d[s]
       /\ (d # NoneDict /\ secrets \subseteq Keys(d)) => ret = d
       /\ d = NoneDict => Keys(ret) = secrets
       /\ \A s \in Secrets : ret[s] \in Scalars \cup {None}

\* A map that fills one secret of the node and leaves another open comes
\* back with the filled slot as passed and the open one drawn.
RandomizersCompletedWitness ==
  /\ pc = "returned"
  /\ args.randomizers_dict # NoneDict
  /\ args.randomizers_dict["x0"] = 2
  /\ args.randomizers_dict["x1"] = None
  /\ "x1" \in Range(expr.secret_vars)
  /\ ret["x0"] = 2
  /\ ret["x1"] = 1



(***************************************************************************)
(* simulate_proof called with a response map and a challenge               *)
(* (SpecSimulation)                                                        *)
(***************************************************************************)
SimulationExpressions ==
  {AndProof(<<P1, P2>>), AndProof(<<AndProof(<<P1, P3>>), P2>>),
   AndProof(<<P3, OrProof(<<P1, P4>>)>>),
   OrProof(<<P1, P2>>), OrProof(<<P1, P4, P3>>),
   OrProof(<<P3, AndProof(<<P1, P2>>)>>),
   OrProof(<<P3, OrProof(<<P1, P3>>)>>)}

\* The response maps a caller passes: None, or a map over x0 and x1.
SimulationDicts ==
  {NoneDict} \cup
  {d \in [Secrets -> Scalars \cup {None}] : Keys(d) \subseteq {"x0", "x1"}}

InitSimulation ==
  /\ expr \in SimulationExpressions
  /\ ctor = [kind |-> expr.kind, subproofs |-> expr.subs]
  /\ built = "ok"
  /\ pc = "init"
  /\ Fresh

\* ret = proof.simulate_proof(responses_dict, challenge)
SimulateProof ==
  /\ pc = "init"
  /\ \E d \in SimulationDicts, c \in Challenges \cup {NoneChal} :
       /\ args' = [responses_dict |-> d, challenge |-> c]
       /\ ret' \in simulate_proof(expr, d, c)
  /\ pc' = "returned"
  /\ UNCHANGED <<ctor, built, expr, witness, prover, statement, commitment,
                 challenge, response, transcript, origin, message, vmessage,
                 outcome, sent, loop>>

NextSimulation == SimulateProof

SpecSimulation == InitSimulation /\ [][NextSimulation]_vars

\* The commitment is what node recomputes from the challenge and the
\* responses: the three form a transcript simulated under that challenge.
SimulatedUnder(node, com, chal, resp) ==
  LET r == recompute_commitment(node, chal, resp)
  IN ~r.raised /\ r.comm = com

\* C27: AndProof.simulate_proof returns the challenge passed (one of the
\* k-bit values when none is passed), and commitment, response and
\* precommitment lists with one slot per child in which slot i is a
\* simulation of child i under that challenge, and the responses of all
\* the children come from one map that extends the map passed.
AndSimulationShape ==
  (pc = "returned" /\ expr.kind = "And") =>
    LET n == Len(expr.subs)
    IN /\ IF args.challenge # NoneChal THEN ret.challenge = args.challenge
          ELSE ret.challenge \in Challenges
       /\ Len(ret.commitment) = n
       /\ Len(ret.responses) = n
       /\ Len(ret.precommitment) = n
       /\ \A i \in 1 .. n :
            /\ SimulatedUnder(expr.subs[i], ret.commitment[i], ret.challenge,
                              ret.responses[i])
            /\ expr.subs[i].kind = "Leaf"
                 => ret.precommitment[i] = NoPrecommitment
       /\ Agree(Answers(expr, ret.responses)
                \cup (IF args.responses_dict = NoneDict THEN {}
                      ELSE DictPairs(args.responses_dict)))

\* An AND of two leaves sharing x0, simulated under the challenge 3 and a
\* map that imposes the response to x0 only.
AndSimulationShapeWitness ==
  /\ pc = "returned"
  /\ expr.kind = "And"
  /\ Len(expr.subs) = 2
  /\ args.challenge = 3
  /\ ret.challenge = 3
  /\ args.responses_dict # NoneDict
  /\ args.responses_dict["x0"] = 2
  /\ args.responses_dict["x1"] = None
  /\ expr.subs[2].kind = "Leaf"
  /\ expr.subs[2].secret_vars = <<"x0", "x1">>
  /\ ret.responses[2] = <<2, 1>>

\* C28: OrProof.simulate_proof returns the global challenge with a list of
\* subchallenges and a list of responses, one slot per child in child
\* order: the first n-1 slots are simulations of their children under
\* k-bit subchallenges of their own, the last one is a simulation of the
\* last child under the residual of the global challenge and the n-1 other
\* subchallenges.
OrSimulationShape ==
  (pc = "returned" /\ expr.kind = "Or") =>
    LET n == Len(expr.subs)
        or_chals == ret.responses[1]
    IN /\ IF args.challenge # NoneChal THEN ret.challenge = args.challenge
          ELSE ret.challenge \in Challenges
       /\ Len(or_chals) = n
       /\ Len(ret.responses[2]) = n
       /\ Len(ret.commitment) = n
       /\ Len(ret.precommitment) = n
       /\ \A i \in 1 .. (n - 1) : or_chals[i] \in Challenges
       /\ or_chals[n] = find_residual_chal(SubSeq(or_chals, 1, n - 1),
                                           ret.challenge, CHAL_LENGTH)
       /\ \A i \in 1 .. n :
            SimulatedUnder(expr.subs[i], ret.commitment[i], or_chals[i],
                           ret.responses[2][i])

\* An OR of three leaves simulated under the challenge 1 with a response
\* map passed for x0: the first leaf, over x0, answers otherwise than the
\* map (the map is ignored), and the first two subchallenges are not the
\* global one.
OrSimulationShapeWitness ==
  /\ pc = "returned"
  /\ expr.kind = "Or"
  /\ Len(expr.subs) = 3
  /\ args.challenge = 1
  /\ args.responses_dict # NoneDict
  /\ args.responses_dict["x0"] = 2
  /\ expr.subs[1].secret_vars = <<"x0">>
  /\ ret.responses[2][1] = <<1>>
  /\ ret.responses[1][1] = 2
  /\ ret.responses[1][2] = 3
  /\ ret.responses[1][3] = 0



(***************************************************************************)
(* AndProver.precommit over what its subprovers return (SpecPrecommit)     *)
(***************************************************************************)
\* What the precommit of a subprover returns: None, a precommitment of a
\* leaf that has one, or the list an inner composite returns.
SubPrecommitments ==
  {NoPrecommitment, <<0>>, <<1>>, <<NoPrecommitment, <<1>>>>}

InitPrecommit ==
  /\ \E n \in 2 .. MaxArity : args \in [1 .. n -> SubPrecommitments]
  /\ ret = NoReturn
  /\ ctor = [kind |-> "And", subproofs |-> <<>>]
  /\ built = "ok"
  /\ expr = NoNode
  /\ pc = "init"
  /\ witness = EmptyDict
  /\ prover = NoProver
  /\ statement = <<>>
  /\ commitment = <<>>
  /\ challenge = NoneChal
  /\ response = <<>>
  /\ transcript = NoTranscript
  /\ origin = "none"
  /\ message = None
  /\ vmessage = None
  /\ outcome = "none"
  /\ sent = NoCall
  /\ loop = NoLoop

\* ret = prover.precommit() on an AND prover whose subprovers return args
Precommit ==
  /\ pc = "init"
  /\ ret' = AndProver_collect(args)
  /\ pc' = "returned"
  /\ UNCHANGED <<ctor, built, expr, witness, prover, statement, commitment,
                 challenge, response, transcript, origin, message, vmessage,
                 outcome, sent, loop, args>>

NextPrecommit == Precommit

SpecPrecommit == InitPrecommit /\ [][NextPrecommit]_vars

\* C29: AndProver.precommit returns None exactly when the precommit of
\* every subprover returns None; otherwise it returns a list with one slot
\* per subprover in which slot i is what subprover i returned, None for a
\* subprover that has no precommitment.
AndPrecommitShape ==
  pc = "returned" =>
    IF \A i \in 1 .. Len(args) : args[i] = NoPrecommitment
    THEN ret = NoPrecommitment
    ELSE /\ ret # NoPrecommitment
         /\ Len(ret) = Len(args)
         /\ \A i \in 1 .. Len(args) : ret[i] = args[i]

\* Three subprovers of which only the second has a precommitment.
AndPrecommitShapeWitness ==
  /\ pc = "returned"
  /\ args = <<NoPrecommitment, <<1>>, NoPrecommitment>>
  /\ ret = <<NoPrecommitment, <<1>>, NoPrecommitment>>



(***************************************************************************)
(* Statement binding (SpecBuild)                                           *)
(***************************************************************************)
\* The composites a constructed one is compared with: all the composites
\* of leaves.
Comparands == Constructed(LeafArgs)

\* Both are composites of the same kind with as many children and, child by
\* child in order, the same proof_ids.
SameDescriptor(one, other) ==
  /\ one.kind = other.kind
  /\ Len(one.subs) = Len(other.subs)
  /\ \A i \in 1 .. Len(one.subs) :
       get_proof_id(one.subs[i]) = get_proof_id(other.subs[i])

\* C30: the proof_id of a composite is its kind tag followed by the list of
\* its children's proof_ids in child order; two composites with the same
\* proof_id, or the same statement hash, have the same kind, as many
\* children and pairwise equal child proof_ids in order; and for children
\* a and b with different proof_ids, AND(a, b), OR(a, b) and AND(b, a) have
\* three different proof_ids and three different statement hashes.
StatementBinding ==
  (pc = "constructed" /\ built = "ok") =>
    /\ get_proof_id(expr) =
         <<expr.kind, [i \in 1 .. Len(expr.subs) |->
                         get_proof_id(expr.subs[i])]>>
    /\ \A other \in Comparands :
         (\/ get_proof_id(expr) = get_proof_id(other)
          \/ prehash_statement(expr) = prehash_statement(other))
           => SameDescriptor(expr, other)
    /\ (/\ Len(expr.subs) = 2
        /\ get_proof_id(expr.subs[1]) # get_proof_id(expr.subs[2])) =>
         LET a == expr.subs[1]
             b == expr.subs[2]
             ids == {get_proof_id(Composite("And", <<a, b>>)),
                     get_proof_id(Composite("Or", <<a, b>>)),
                     get_proof_id(Composite("And", <<b, a>>))}
             hashes == {prehash_statement(Composite("And", <<a, b>>)),
                        prehash_statement(Composite("Or", <<a, b>>)),
                        prehash_statement(Composite("And", <<b, a>>))}
         IN Cardinality(ids) = 3 /\ Cardinality(hashes) = 3

\* An AND of two different leaves: the AND of the same leaves in the other
\* order and the OR of the same leaves are among the composites compared.
StatementBindingWitness ==
  /\ pc = "constructed"
  /\ built = "ok"
  /\ expr.kind = "And"
  /\ Len(expr.subs) = 2
  /\ expr.subs[1].kind = "Leaf"
  /\ expr.subs[2].kind = "Leaf"
  /\ get_proof_id(expr.subs[1]) # get_proof_id(expr.subs[2])
  /\ Composite("And", <<expr.subs[2], expr.subs[1]>>) \in Comparands
  /\ Composite("Or", expr.subs) \in Comparands



(***************************************************************************)
(* The range of the subchallenges (Spec)                                   *)
(***************************************************************************)
RECURSIVE Subchallenges(_, _)
\* All the subchallenges the ORs of node carry in the responses.
Subchallenges(node, responses) ==
  CASE node.kind = "And" ->
         UNION {Subchallenges(node.subs[i], responses[i]) :
                  i \in 1 .. Len(node.subs)}
    [] node.kind = "Or" ->
         Range(responses[1])
         \cup UNION {Subchallenges(node.subs[i], responses[2][i]) :
                       i \in 1 .. Len(node.subs)}
    [] OTHER -> {}

\* C31: every subchallenge in the response of an OR prover and in a proved
\* or simulated transcript of an OR, the residual challenge included, is a
\* k-bit value of 0 .. 2^k - 1.
SubchallengesInRange ==
  /\ (pc \in {"responded", "verified"} /\ response # <<>>) =>
       Subchallenges(expr, response) \subseteq Challenges
  /\ transcript # NoTranscript =>
       Subchallenges(expr, transcript.responses) \subseteq Challenges



(***************************************************************************)
(* A second call on the same expression (SpecReuse)                        *)
(***************************************************************************)
ReuseExpressions == {AndProof(<<P1, P2>>), OrProof(<<P1, P3>>)}

\* The witness maps of a second call: the true witness and the empty map.
ReuseWitnesses(keys) == {DictFilter(TrueWitness, keys), EmptyDict}

InitReuse ==
  /\ expr \in ReuseExpressions
  /\ ctor = [kind |-> expr.kind, subproofs |-> expr.subs]
  /\ built = "ok"
  /\ pc = "init"
  /\ Fresh

\* The positions after a first simulate or get_prover call.
Called == {"simulated", "prover", "absent"}

\* prover = proof.get_prover(secrets_dict), after an earlier call
GetProverAgain ==
  /\ pc \in Called
  /\ \E W \in ReuseWitnesses(Range(expr.secret_vars)) :
       \E r \in get_prover(expr, W) :
         /\ args' = [secrets_dict |-> W, after |-> pc]
         /\ expr' = r.proof
         /\ prover' = r.prover
         /\ pc' = IF r.prover = NoProver THEN "absent_again"
                  ELSE "prover_again"
  /\ UNCHANGED <<ctor, built, witness, statement, commitment, challenge,
                 response, transcript, origin, message, vmessage, outcome,
                 sent, loop, ret>>

\* transcript = proof.prove(secrets_dict, message), after an earlier call
ProveAgain ==
  /\ pc \in Called
  /\ \E W \in ReuseWitnesses(Range(expr.secret_vars)), m \in {0} :
       \E r \in Proof_prove(expr, W, m) :
         /\ args' = [secrets_dict |-> W, after |-> pc]
         /\ expr' = r.proof
         /\ transcript' = r.transcript
         /\ message' = m
         /\ pc' = IF r.transcript = NoTranscript THEN "failed_again"
                  ELSE "proved_again"
  /\ UNCHANGED <<ctor, built, witness, prover, statement, commitment,
                 challenge, response, origin, vmessage, outcome, sent, loop,
                 ret>>

\* proof.verify(transcript, message) of the transcript proved last
VerifyAgain ==
  /\ pc = "proved_again"
  /\ LET v == Proof_verify(expr, transcript, message)
     IN /\ outcome' = v.outcome
        /\ expr' = v.proof
  /\ vmessage' = message
  /\ pc' = "verified_again"
  /\ UNCHANGED <<ctor, built, witness, prover, statement, commitment,
                 challenge, response, transcript, origin, message, sent,
                 loop, args, ret>>

NextReuse ==
  GetProver \/ Simulate \/ GetProverAgain \/ ProveAgain \/ VerifyAgain

SpecReuse == InitReuse /\ [][NextReuse]_vars

\* The witness map of the second call satisfies the expression as built,
\* whichever branches its ORs pick.
SecondWitnessSatisfies ==
  LET built_expr == Composite(ctor.kind, ctor.subproofs)
  IN /\ Satisfies(built_expr, args.secrets_dict)
     /\ Reliable(built_expr, args.secrets_dict)

\* C32: after simulate() on an AND or OR expression, get_prover with a
\* satisfying witness map returns a prover and prove with it returns a
\* transcript that verifies.
ProvingSurvivesSimulation ==
  (pc \in {"prover_again", "absent_again", "proved_again", "failed_again",
           "verified_again"}
     /\ args.after = "simulated" /\ SecondWitnessSatisfies) =>
    /\ pc \notin {"absent_again", "failed_again"}
    /\ pc = "verified_again" => outcome = "accept"

\* C33: the prover a second get_prover call returns is one the expression
\* as constructed returns for the map of that call alone; with an empty
\* map and no bound values that is no prover.
WitnessIsolation ==
  (pc \in {"prover_again", "absent_again"}
     /\ args.after \in {"prover", "absent"}) =>
    /\ prover \in {r.prover :
                     r \in get_prover(Composite(ctor.kind, ctor.subproofs),
                                      args.secrets_dict)}
    /\ args.secrets_dict = EmptyDict => pc = "absent_again"



(***************************************************************************)
(* check_responses_consistency called without a dictionary (SpecDefault)   *)
(***************************************************************************)
\* ANDs of leaves and of an AND; their verifiers are AndVerifiers.
DefaultExpressions ==
  {AndProof(<<P1, P2>>), AndProof(<<AndProof(<<P1, P3>>), P2>>)}

RECURSIVE ResponsesFrom(_, _)
\* The responses for a tree of ANDs and leaves in which every secret is
\* answered as the map says: a response list consistent in itself.
ResponsesFrom(node, rd) ==
  IF node.kind = "Leaf" THEN ResponsesOf(node, rd)
  ELSE [i \in 1 .. Len(node.subs) |-> ResponsesFrom(node.subs[i], rd)]

\* Before any call: the default value of responses_dict is the empty
\* dictionary made when the function is defined, one object, the same for
\* every call that passes none.
NoCheckYet == [ok |-> TRUE, dict |-> EmptyDict]

InitDefault ==
  /\ expr \in DefaultExpressions
  /\ ctor = [kind |-> expr.kind, subproofs |-> expr.subs]
  /\ built = "ok"
  /\ pc = "init"
  /\ ret = NoCheckYet
  /\ args = NoArgs
  /\ witness = EmptyDict
  /\ prover = NoProver
  /\ statement = <<>>
  /\ commitment = <<>>
  /\ challenge = NoneChal
  /\ response = <<>>
  /\ transcript = NoTranscript
  /\ origin = "none"
  /\ message = None
  /\ vmessage = None
  /\ outcome = "none"
  /\ sent = NoCall
  /\ loop = NoLoop

\* verifier.check_responses_consistency(responses): no dictionary is passed,
\* so the children record in the default one, as the calls before left it
\* (ret.dict).  ret is the result and the default dictionary after the call.
CheckDefault ==
  /\ pc \in {"init", "checked"}
  /\ \E rd \in FullDicts(Range(expr.secret_vars)) :
       /\ response' = ResponsesFrom(expr, rd)
       /\ args' = [responses |-> response', responses_dict |-> ret.dict]
       /\ ret' = check_responses_consistency(expr, response', ret.dict)
  /\ pc' = IF pc = "init" THEN "checked" ELSE "checked_again"
  /\ UNCHANGED <<ctor, built, expr, witness, prover, statement, commitment,
                 challenge, transcript, origin, message, vmessage, outcome,
                 sent, loop>>

NextDefault == CheckDefault

SpecDefault == InitDefault /\ [][NextDefault]_vars

\* C34: the result of check_responses_consistency called without a
\* dictionary is the result for the responses of that call alone: what an
\* earlier call recorded does not make a list that is consistent in itself
\* fail.
ChecksIndependent ==
  pc \in {"checked", "checked_again"} =>
    ret.ok = check_responses_consistency(expr, response, EmptyDict).ok

(***************************************************************************)
(* Two provers of one OR expression                                        *)
(*                                                                         *)
(* Both provers hold the same expression object (self.proof).  Each of    *)
(* pc, witness, prover, commitment, challenge, response and outcome is    *)
(* here a pair, one component per prover; args keeps each prover as its   *)
(* construction left it; origin tells whether a prover was built while an *)
(* earlier one had still to answer.                                        *)
(***************************************************************************)
PairExpressions == {OrProof(<<P1, P3>>)}

\* The witness map given to get_prover: the true value of every secret, so
\* that every child can be drawn as the real branch.
PairWitnesses(node) == {DictFilter(TrueWitness, Range(node.secret_vars))}

Provers == 1 .. 2

InitPair ==
  /\ expr \in PairExpressions
  /\ ctor = [kind |-> expr.kind, subproofs |-> expr.subs]
  /\ built = "ok"
  /\ pc = [p \in Provers |-> "init"]
  /\ witness = [p \in Provers |-> EmptyDict]
  /\ prover = [p \in Provers |-> NoProver]
  /\ args = [p \in Provers |-> NoProver]
  /\ commitment = [p \in Provers |-> <<>>]
  /\ challenge = [p \in Provers |-> NoneChal]
  /\ response = [p \in Provers |-> <<>>]
  /\ outcome = <<"none", "none">>
  /\ origin = "none"
  /\ statement = <<>>
  /\ transcript = NoTranscript
  /\ message = None
  /\ vmessage = None
  /\ sent = NoCall
  /\ loop = NoLoop
  /\ ret = NoReturn

\* prover p = proof.get_prover(W), on the expression as the calls before
\* it left it; the provers are numbered in the order of their construction
PairGetProver(p) ==
  /\ pc[p] = "init"
  /\ p > 1 => pc[p - 1] # "init"
  /\ \E W \in PairWitnesses(expr) :
       \E r \in get_prover(expr, W) :
         /\ witness' = [witness EXCEPT ![p] = W]
         /\ expr' = r.proof
         /\ prover' = [prover EXCEPT ![p] = r.prover]
         /\ args' = [args EXCEPT ![p] = r.prover]
         /\ origin' = IF p > 1 /\ pc[p - 1] \in {"prover", "committed"}
                      THEN "interleaved" ELSE origin
         /\ pc' = [pc EXCEPT ![p] = IF r.prover = NoProver THEN "absent"
                                     ELSE "prover"]
  /\ UNCHANGED <<ctor, built, statement, commitment, challenge, response,
                 transcript, message, vmessage, outcome, sent, loop, ret>>

\* prover p commits
PairCommit(p) ==
  /\ pc[p] = "prover"
  /\ \E c \in internal_commit(expr, prover[p], NoneDict) :
       /\ prover' = [prover EXCEPT ![p] = c.prover]
       /\ commitment' = [commitment EXCEPT ![p] = c.commitment]
  /\ pc' = [pc EXCEPT ![p] = "committed"]
  /\ UNCHANGED <<ctor, built, expr, witness, statement, challenge, response,
                 transcript, origin, message, vmessage, outcome, sent, loop,
                 args, ret>>

\* prover p receives a challenge and answers it
PairComputeResponse(p) ==
  /\ pc[p] = "committed"
  /\ \E c \in Challenges :
       /\ challenge' = [challenge EXCEPT ![p] = c]
       /\ response' = [response EXCEPT
                         ![p] = compute_response(expr, prover[p], c)]
  /\ pc' = [pc EXCEPT ![p] = "responded"]
  /\ UNCHANGED <<ctor, built, expr, witness, prover, statement, commitment,
                 transcript, origin, message, vmessage, outcome, sent, loop,
                 args, ret>>

\* once both provers have answered, a verifier of the expression verifies
\* the first transcript and another one the second
PairVerify ==
  /\ \A p \in Provers : pc[p] = "responded"
  /\ LET v1 == Verifier_verify(expr, commitment[1], challenge[1], response[1])
         v2 == Verifier_verify(v1.proof, commitment[2], challenge[2],
                               response[2])
     IN /\ outcome' = <<v1.outcome, v2.outcome>>
        /\ expr' = v2.proof
  /\ pc' = [p \in Provers |-> "verified"]
  /\ UNCHANGED <<ctor, built, witness, prover, statement, commitment,
                 challenge, response, transcript, origin, message, vmessage,
                 sent, loop, args, ret>>

NextPair ==
  \/ \E p \in Provers :
       \/ PairGetProver(p)
       \/ PairCommit(p)
       \/ PairComputeResponse(p)
  \/ PairVerify

SpecPair == InitPair /\ [][NextPair]_vars

\* The transcript of prover p puts the residual challenge and the real
\* subprover's answer at the index fixed at its construction, and the
\* stored simulations, in order, everywhere else.
UsesOwnConstruction(p) ==
  LET own == args[p]
      others == SelectSeq([i \in 1 .. Len(expr.subs) |-> i],
                          LAMBDA i : i # own.true_prover_idx)
  IN /\ prover[p].true_prover_idx = own.true_prover_idx
     /\ prover[p].simulations = own.simulations
     /\ pc[p] \in {"responded", "verified"} =>
          /\ \A j \in 1 .. Len(others) :
               /\ response[p][1][others[j]] = own.simulations[j].challenge
               /\ response[p][2][others[j]] = own.simulations[j].responses
               /\ commitment[p][others[j]] = own.simulations[j].commitment
          /\ SplitLaw(expr, challenge[p], response[p])

\* C35: Two provers built from one OR expression, their get_prover, commit
\* and compute_response calls interleaved in any order, each keep the real
\* branch and the simulations of their own construction; both transcripts
\* satisfy the challenge split law and both are accepted.
ProversIndependent ==
  \A p \in Provers :
    pc[p] \in {"prover", "committed", "responded", "verified"} =>
      /\ UsesOwnConstruction(p)
      /\ pc[p] = "verified" => outcome[p] = "accept"

\* The second prover was built, on another branch, when the first had not
\* yet answered; both transcripts were verified.
ProversIndependentWitness ==
  /\ pc[1] = "verified" /\ pc[2] = "verified"
  /\ origin = "interleaved"
  /\ args[1].true_prover_idx # args[2].true_prover_idx
  /\ expr.chosen_idx # args[1].true_prover_idx

====
